---- MODULE Spec2Model ----
(***************************************************************************)
(* Coordination layer of the AI-employee vault: the service health         *)
(* monitor (circuit breaker) of utils/error_recovery.py, the approval      *)
(* pipeline of main.py with its signature registry, and the claim-by-move  *)
(* agents under scripts/.                                                  *)
(***************************************************************************)
EXTENDS Integers, Sequences, FiniteSets, TLC

VARIABLES
    health,      \* Logs/service_health.json: service -> record (a dict)
    now,         \* wall clock of the health monitor, in minutes
    failCalls,   \* history: record_failure calls since the last record_success
    trace,       \* history: statuses written since the last record_success
    lastCall     \* history: the last monitor call made for each service

hvars == <<health, now, failCalls, trace, lastCall>>

VARIABLES
    vault,       \* directory -> (file name -> [content, id])
    registry,    \* Logs/processed_approvals.json: signature -> record
    clock,       \* wall clock of the vault processes, in seconds
    nextId,      \* identity given to the next file that is created
    agent_role,  \* AGENT_ROLE in the environment of each process
    pa,          \* the locals of each process's process_approved run
    hist         \* history of the channel actions that were invoked

avars == <<vault, registry, clock, nextId, agent_role, pa, hist>>

VARIABLES
    agents,      \* the position of each claiming agent in its polling loop
    claims       \* history of the claim calls and of the files derived from claims

cvars == <<agents, claims>>

VARIABLES
    queue,       \* Offline_Queue: item id -> the item's JSON record and folder
    exec         \* history of the last executor or queue call

qvars == <<queue, exec>>

VARIABLES
    retry,       \* the last call of a function wrapped by with_retry
    dash         \* the dashboard writer lock, Dashboard.md and the last update

rvars == <<retry, dash>>

VARIABLES
    api,         \* history: the last action of the API and its response
    rej,         \* the locals of each process's process_rejected run
    loop         \* the state of a RalphWiggumLoop.execute_loop call

pvars == <<api, rej, loop>>

vars == <<hvars, avars, cvars, qvars, rvars, pvars>>

----------------------------------------------------------------------------
(* Bounds *)
MaxTime == 8
MaxFailures == 5

(* Program constants *)
failure_threshold == 3
recovery_window == 5

Services == {"gmail", "odoo"}

HEALTHY == "healthy"
DEGRADED == "degraded"
UNAVAILABLE == "unavailable"
UNKNOWN == "unknown"

----------------------------------------------------------------------------
(* ServiceHealthMonitor *)

\* dict.get(key, default) on a record standing for a Python dict
Get(d, k, default) == IF k \in DOMAIN d THEN d[k] ELSE default

EmptyDict == [k \in {} |-> 0]

\* dict assignment d[k] = v
Put(d, k, v) == [x \in (DOMAIN d) \cup {k} |-> IF x = k THEN v ELSE d[x]]

record_success_keep(h, service, t) ==
    Put(h, service,
        [status |-> HEALTHY,
         consecutive_failures |->
             Get(Get(h, service, EmptyDict), "consecutive_failures", 0),
         last_success |-> t,
         last_check |-> t])

record_success(h, service, t) ==
    Put(h, service,
        [status |-> HEALTHY,
         consecutive_failures |-> 0,
         last_success |-> t,
         last_check |-> t])

FailureStatus_gt(failures) ==
    IF failures > failure_threshold THEN UNAVAILABLE ELSE DEGRADED

FailureStatus(failures) ==
    IF failures >= failure_threshold THEN UNAVAILABLE ELSE DEGRADED

\* Variant of record_failure that keeps the last_check of the record
record_failure_stale(h, service, error, t) ==
    LET current == Get(h, service, EmptyDict)
        failures == Get(current, "consecutive_failures", 0) + 1
    IN Put(h, service,
           [status |-> FailureStatus(failures),
            consecutive_failures |-> failures,
            last_failure |-> t,
            last_error |-> error,
            last_check |-> Get(current, "last_check", t)])

record_failure(h, service, error, t) ==
    LET current == Get(h, service, EmptyDict)
        failures == Get(current, "consecutive_failures", 0) + 1
    IN Put(h, service,
           [status |-> FailureStatus(failures),
            consecutive_failures |-> failures,
            last_failure |-> t,
            last_error |-> error,
            last_check |-> t])

get_status(h, service) ==
    Get(Get(h, service, EmptyDict), "status", UNKNOWN)

WindowPassed_ge(last_check, t) == t - last_check >= recovery_window

WindowPassed(last_check, t) == t - last_check > recovery_window

\* Variant of is_available that lets every call through
is_available_open(h, service, t) == TRUE

is_available(h, service, t) ==
    LET status == get_status(h, service)
        service_health == Get(h, service, EmptyDict)
    IN IF status = HEALTHY THEN TRUE
       ELSE IF status = UNAVAILABLE
            THEN IF "last_check" \in DOMAIN service_health
                 THEN WindowPassed(service_health["last_check"], t)
                 ELSE FALSE
            ELSE TRUE

----------------------------------------------------------------------------
HealthInit ==
    /\ health = EmptyDict
    /\ now = 0
    /\ failCalls = [s \in Services |-> 0]
    /\ trace = [s \in Services |-> <<>>]
    /\ lastCall = [s \in Services |-> "none"]

RecordSuccess(s) ==
    /\ health' = record_success(health, s, now)
    /\ failCalls' = [failCalls EXCEPT ![s] = 0]
    /\ trace' = [trace EXCEPT ![s] = <<get_status(health', s)>>]
    /\ lastCall' = [lastCall EXCEPT ![s] = "record_success"]
    /\ UNCHANGED <<now, avars, cvars, pvars, qvars, rvars>>

RecordFailure(s) ==
    /\ failCalls[s] < MaxFailures
    /\ health' = record_failure(health, s, "error", now)
    /\ failCalls' = [failCalls EXCEPT ![s] = @ + 1]
    /\ trace' = [trace EXCEPT ![s] = Append(@, get_status(health', s))]
    /\ lastCall' = [lastCall EXCEPT ![s] = "record_failure"]
    /\ UNCHANGED <<now, avars, cvars, pvars, qvars, rvars>>

Tick ==
    /\ now < MaxTime
    /\ now' = now + 1
    /\ UNCHANGED <<health, failCalls, trace, lastCall, avars, cvars, pvars, qvars, rvars>>

HealthNext ==
    \/ \E s \in Services : RecordSuccess(s)
    \/ \E s \in Services : RecordFailure(s)
    \/ Tick


----------------------------------------------------------------------------
(* The vault: directories of work-item files, and the signature registry *)

\* Bounds
MaxFiles == 2
MaxRuns == 2
MaxClock == 1

Ids == 1..MaxFiles
Contents == {"c1", "bad"}

NEEDS_ACTION == "Needs_Action"
NEEDS_ACTION_CLOUD == "Needs_Action/cloud"
PENDING_APPROVAL == "Pending_Approval"
APPROVED == "Approved"
REJECTED == "Rejected"
DONE == "Done"
IN_PROGRESS_CLOUD == "In_Progress/cloud"
IN_PROGRESS_LOCAL == "In_Progress/local"

Dirs == {NEEDS_ACTION, NEEDS_ACTION_CLOUD, PENDING_APPROVAL, APPROVED,
         REJECTED, DONE, IN_PROGRESS_CLOUD, IN_PROGRESS_LOCAL}

\* A file name is the sequence of its "_"-separated parts (".md" implied).
StartsWith(n, pre) == Len(n) > Len(pre) /\ SubSeq(n, 1, Len(pre)) = pre

ContainsPart(n, mid) ==
    \E i \in 1..Len(n) :
        /\ i + Len(mid) - 1 < Len(n)
        /\ SubSeq(n, i, i + Len(mid) - 1) = mid

\* APPROVED.glob(...) patterns of main.py and of the channel processors
GlobEmail(n) == StartsWith(n, <<"EMAIL", "SEND">>)
GlobLinkedin(n) == StartsWith(n, <<"LINKEDIN", "POST">>)
GlobTwitter(n) == StartsWith(n, <<"TWITTER", "POST", "APPROVAL">>)
GlobCompletedTwitter(n) ==
    StartsWith(n, <<"COMPLETED", "TWITTER", "POST", "APPROVAL">>)
GlobSocialPost(n, platform) == StartsWith(n, <<platform, "POST">>)
GlobSocialApproval(n, platform) == ContainsPart(n, <<platform, "POST", "APPROVAL">>)
GlobOdooInvoice(n) == StartsWith(n, <<"ODOO", "INVOICE">>)
GlobOdooPostInvoice(n) == StartsWith(n, <<"ODOO", "POST", "INVOICE">>)
GlobOdooPayment(n) == StartsWith(n, <<"ODOO", "PAYMENT">>)
GlobWhatsapp(n) == StartsWith(n, <<"WHATSAPP", "REPLY">>)

\* Names under which approved items are placed in Approved
ApprovedNames ==
    {<<"EMAIL", "SEND", "a">>, <<"EMAIL", "SEND", "b">>,
     <<"LINKEDIN", "POST", "a">>,
     <<"TWITTER", "POST", "APPROVAL", "a">>,
     <<"FACEBOOK", "POST", "APPROVAL", "a">>,
     <<"INSTAGRAM", "POST", "a">>,
     <<"ODOO", "INVOICE", "a">>,
     <<"ODOO", "PAYMENT", "a">>,
     <<"WHATSAPP", "REPLY", "a">>}

\* The items that get approved: every name with a well-formed content, and
\* some with a content that lacks the fields its processor needs
Placements ==
    {<<n, "c1">> : n \in ApprovedNames}
        \cup {<<<<"EMAIL", "SEND", "b">>, "bad">>,
              <<<<"ODOO", "INVOICE", "a">>, "bad">>,
              <<<<"FACEBOOK", "POST", "APPROVAL", "a">>, "bad">>}

\* A directory listing in a fixed order
RECURSIVE SetToSeq(_)
SetToSeq(S) ==
    IF S = {} THEN <<>>
    ELSE LET x == CHOOSE y \in S : TRUE IN <<x>> \o SetToSeq(S \ {x})

Remove(d, k) == [x \in (DOMAIN d) \ {k} |-> d[x]]

Exists(v, dir, n) == n \in DOMAIN v[dir]

\* Path.rename: moves the file, replacing a file already at the target
Rename(v, d1, n1, d2, n2) ==
    LET f == v[d1][n1]
        v1 == [v EXCEPT ![d1] = Remove(@, n1)]
    IN [v1 EXCEPT ![d2] = Put(@, n2, f)]

\* datetime.now().strftime('%Y%m%d_%H%M%S')
Timestamp(t) == ToString(t)

\* hashlib.sha256 of the file's text
sha256(content) == <<"sha256", content>>

_approval_signature(v, n) == sha256(v[APPROVED][n].content)

DoneTarget(v, n, prefix, t) ==
    LET name == prefix \o n
    IN IF Exists(v, DONE, name) THEN <<Timestamp(t)>> \o name ELSE name

_move_to_done(v, dir, n, prefix, t) ==
    Rename(v, dir, n, DONE, DoneTarget(v, n, prefix, t))

_record_processed_signature(seen, signature, file_name, processor, t) ==
    Put(seen, signature, [file |-> file_name, processor |-> processor])

----------------------------------------------------------------------------
(* process_approved of main.py, run by the orchestrator loop and by the    *)
(* local executive agent                                                   *)

Procs == {"orchestrator", "local_executive"}

Channels == <<"email", "linkedin", "twitter", "facebook", "instagram">>
ChannelSet == {Channels[i] : i \in 1..Len(Channels)}

Platform(ch) == IF ch = "facebook" THEN "FACEBOOK" ELSE "INSTAGRAM"

\* What a processor can parse out of the file: the required fields are there
Valid(content) == content # "bad"

Listing(v, dir, Match(_)) == SetToSeq({n \in DOMAIN v[dir] : Match(n)})

SocialFiles(v, ch) ==
    LET PostPattern(n) == GlobSocialPost(n, Platform(ch))
        ApprovalPattern(n) == GlobSocialApproval(n, Platform(ch))
    IN Listing(v, APPROVED, PostPattern) \o Listing(v, APPROVED, ApprovalPattern)

ApprovedFiles(v, ch) ==
    CASE ch = "email" -> Listing(v, APPROVED, GlobEmail)
      [] ch = "linkedin" -> Listing(v, APPROVED, GlobLinkedin)
      [] ch = "twitter" -> Listing(v, APPROVED, GlobTwitter)
      [] OTHER -> SocialFiles(v, ch)

\* the names that some pattern of process_approved matches
ChannelFile(n) ==
    \/ GlobEmail(n) \/ GlobLinkedin(n) \/ GlobTwitter(n)
    \/ \E ch \in {"facebook", "instagram"} :
           GlobSocialPost(n, Platform(ch)) \/ GlobSocialApproval(n, Platform(ch))
    \/ GlobOdooInvoice(n) \/ GlobOdooPostInvoice(n) \/ GlobOdooPayment(n)

OdooFiles(v) ==
    Listing(v, APPROVED, GlobOdooInvoice) \o Listing(v, APPROVED, GlobOdooPayment)
        \o Listing(v, APPROVED, GlobOdooPostInvoice)

\* History kept for the properties: one entry per call of a channel action
Invoke(h, f, ok, reg) ==
    [h EXCEPT !.invoked[f.id] = @ + 1,
              !.ok = IF ok THEN @ \cup {f.id} ELSE @,
              !.failed = IF ok THEN @ ELSE @ \cup {f.id},
              !.onRecorded = IF sha256(f.content) \in DOMAIN reg
                             THEN @ \cup {f.id} ELSE @]

RECURSIVE FilterLoop(_, _, _, _, _)
FilterLoop(files, acc, seen, ch, t) ==
    IF files = <<>> \/ acc.raised THEN acc
    ELSE LET n == Head(files) IN
         IF ~Exists(acc.v, APPROVED, n)
         THEN [acc EXCEPT !.raised = TRUE]
         ELSE LET signature == _approval_signature(acc.v, n) IN
              IF signature \in DOMAIN seen
              THEN FilterLoop(Tail(files),
                       [acc EXCEPT
                           !.v = _move_to_done(@, APPROVED, n, <<"DUPLICATE">>, t),
                           !.duplicates = Append(@,
                               [status |-> "skipped_duplicate",
                                processor |-> ch,
                                file |-> n,
                                original_file |-> seen[signature].file,
                                archived_as |->
                                    DoneTarget(acc.v, n, <<"DUPLICATE">>, t)])],
                       seen, ch, t)
              ELSE FilterLoop(Tail(files),
                       [acc EXCEPT !.files[ch] = Append(@, n),
                                   !.sig_map[ch] = Put(@, n, signature)],
                       seen, ch, t)

_filter_duplicate_approved_files(files, acc, seen, ch, t) ==
    FilterLoop(files, acc, seen, ch, t)

RECURSIVE _finalize_processed_files(_, _, _, _, _, _)
_finalize_processed_files(original_files, sig_map, seen, ch, v, t) ==
    IF original_files = <<>> THEN seen
    ELSE LET n == Head(original_files)
             seen1 == IF ~Exists(v, APPROVED, n) /\ n \in DOMAIN sig_map
                      THEN _record_processed_signature(seen, sig_map[n], n, ch, t)
                      ELSE seen
         IN _finalize_processed_files(Tail(original_files), sig_map, seen1, ch, v, t)

IdleLocals ==
    [pc |-> "idle",
     seen |-> EmptyDict,
     files |-> [ch \in ChannelSet |-> <<>>],
     sig_map |-> [ch \in ChannelSet |-> EmptyDict],
     odoo_files |-> FALSE]

EmptySummary ==
    [duplicates |-> <<>>, errors |-> {}, calls |-> [i \in Ids |-> 0],
     ok_ids |-> {}, ok_sigs |-> {}, returned |-> FALSE, raised |-> FALSE, quiet |-> FALSE,
     prev_ok |-> {}, expect_dups |-> {}, odoo |-> "none"]

VaultInit ==
    /\ vault = [d \in Dirs |-> EmptyDict]
    /\ registry = EmptyDict
    /\ clock = 0
    /\ nextId = 1
    /\ agent_role = [p \in Procs |-> "local"]
    /\ pa = [p \in Procs |-> [locals |-> IdleLocals, summary |-> EmptySummary,
                              runs |-> 0, placed_seen |-> 0]]
    /\ hist = [invoked |-> [i \in Ids |-> 0], ok |-> {}, failed |-> {},
               okSigs |-> {}, onRecorded |-> {}, saved |-> {}, placed |-> 0]

\* An approved item (or a byte-identical copy of one) is put into Approved
PlaceApproved(n, c) ==
    /\ <<n, c>> \in Placements
    /\ nextId <= MaxFiles
    /\ ~Exists(vault, APPROVED, n)
    /\ vault' = [vault EXCEPT ![APPROVED] = Put(@, n, [content |-> c, id |-> nextId])]
    /\ nextId' = nextId + 1
    /\ hist' = [hist EXCEPT !.placed = @ + 1]
    /\ UNCHANGED <<registry, clock, agent_role, pa, hvars, cvars, pvars, qvars, rvars>>

ClockTick ==
    /\ clock < MaxClock
    /\ clock' = clock + 1
    /\ UNCHANGED <<vault, registry, nextId, agent_role, pa, hist, hvars, cvars, pvars, qvars, rvars>>

\* main.py 429-467: load the registry, list Approved, filter the duplicates
FilterAll(v, seen, t) ==
    LET acc0 == [v |-> v, duplicates |-> <<>>, raised |-> FALSE,
                 files |-> [ch \in ChannelSet |-> <<>>],
                 sig_map |-> [ch \in ChannelSet |-> EmptyDict]]
        a1 == _filter_duplicate_approved_files(
                  ApprovedFiles(v, "email"), acc0, seen, "email", t)
        a2 == _filter_duplicate_approved_files(
                  ApprovedFiles(v, "linkedin"), a1, seen, "linkedin", t)
        a3 == _filter_duplicate_approved_files(
                  ApprovedFiles(v, "twitter"), a2, seen, "twitter", t)
        a4 == _filter_duplicate_approved_files(
                  ApprovedFiles(v, "facebook"), a3, seen, "facebook", t)
    IN _filter_duplicate_approved_files(
           ApprovedFiles(v, "instagram"), a4, seen, "instagram", t)

PA_BeginFrom(p, counted) ==
    /\ pa[p].locals.pc = "idle"
    /\ counted => pa[p].runs < MaxRuns
    /\ \E a \in {FilterAll(vault, registry, clock)} :
       LET seen == registry
           locals == [pc |-> "run", seen |-> seen, files |-> a.files,
                      sig_map |-> a.sig_map,
                      odoo_files |-> OdooFiles(vault) # <<>>]
           quiet == pa[p].runs >= 1 /\ pa[p].placed_seen = hist.placed
           known == {n \in DOMAIN vault[APPROVED] :
                        /\ ChannelFile(n)
                        /\ _approval_signature(vault, n) \in hist.okSigs}
           start == [EmptySummary EXCEPT
                        !.duplicates = a.duplicates,
                        !.quiet = quiet,
                        !.prev_ok = pa[p].summary.ok_ids,
                        !.expect_dups = {[name |-> n, id |-> vault[APPROVED][n].id] :
                                             n \in known}]
       IN /\ vault' = a.v
          /\ pa' = [pa EXCEPT ![p] =
                IF a.raised
                THEN [locals |-> IdleLocals,
                      summary |-> [start EXCEPT !.raised = TRUE],
                      runs |-> IF @.runs < MaxRuns THEN @.runs + 1 ELSE @.runs,
                      placed_seen |-> hist.placed]
                ELSE [locals |-> locals,
                      summary |-> start,
                      runs |-> IF @.runs < MaxRuns THEN @.runs + 1 ELSE @.runs,
                      placed_seen |-> hist.placed]]
    /\ UNCHANGED <<registry, clock, nextId, agent_role, hist, hvars, cvars, pvars, qvars, rvars>>

\* one of the first MaxRuns runs of the process
PA_Begin(p) == PA_BeginFrom(p, TRUE)

\* The call of a channel action (send, post, create) on the item f
Call(acc, f, ok, reg) ==
    [acc EXCEPT !.h = [Invoke(@, f, ok, reg) EXCEPT
                           !.okSigs = IF ok THEN @ \cup {sha256(f.content)} ELSE @],
                !.calls[f.id] = @ + 1,
                !.ok_ids = IF ok THEN @ \cup {f.id} ELSE @,
                !.ok_sigs = IF ok THEN @ \cup {sha256(f.content)} ELSE @]

\* Variant of the iteration that performs the action and leaves the file in
\* Approved whatever the result
ProcessOne_nomove(ch, acc, n, ok, reg, t) ==
    IF ~Exists(acc.v, APPROVED, n)
    THEN IF ch = "email" THEN acc ELSE [acc EXCEPT !.raised = TRUE]
    ELSE Call(acc, acc.v[APPROVED][n], ok, reg)

\* One iteration of a channel processor's loop over its own listing
ProcessOne(ch, acc, n, ok, reg, t) ==
    IF ~Exists(acc.v, APPROVED, n)
    THEN IF ch = "email" THEN acc ELSE [acc EXCEPT !.raised = TRUE]
    ELSE
    LET f == acc.v[APPROVED][n]
        called == Call(acc, f, ok, reg)
    IN CASE ch = "email" ->
              IF Valid(f.content)
              THEN [called EXCEPT !.v = Rename(@, APPROVED, n, DONE, n)]
              ELSE acc
         [] ch = "linkedin" ->
              IF Valid(f.content)
              THEN IF ok THEN [called EXCEPT !.v = Rename(@, APPROVED, n, DONE, n)]
                         ELSE called
              ELSE acc
         [] ch = "twitter" ->
              IF Valid(f.content)
              THEN IF ok THEN [called EXCEPT
                                  !.v = Rename(@, APPROVED, n, APPROVED, <<"COMPLETED">> \o n)]
                         ELSE called
              ELSE acc
         [] OTHER ->
              IF ok THEN [called EXCEPT
                             !.v = Rename(@, APPROVED, n, DONE, DoneTarget(acc.v, n, <<>>, t))]
                    ELSE called

RECURSIVE ProcessLoop(_, _, _, _, _, _)
ProcessLoop(ch, files, acc, ok, reg, t) ==
    IF files = <<>> \/ acc.raised THEN acc
    ELSE ProcessLoop(ch, Tail(files),
                     ProcessOne(ch, acc, Head(files), ok[Head(files)], reg, t),
                     ok, reg, t)

Names(files) == {files[i] : i \in 1..Len(files)}

\* main.py 469-509: one "if <channel>_files:" block; w holds the vault, the
\* history, and the run's locals and summary
ChannelBlock(w, ch, ok, reg, t) ==
    IF w.locals.files[ch] = <<>> THEN w
    ELSE
    LET r == ProcessLoop(ch, ApprovedFiles(w.v, ch),
                 [v |-> w.v, h |-> w.h, raised |-> FALSE,
                  calls |-> w.summary.calls, ok_ids |-> w.summary.ok_ids,
                  ok_sigs |-> w.summary.ok_sigs],
                 ok, reg, t)
        seen1 == IF r.raised THEN w.locals.seen
                 ELSE _finalize_processed_files(w.locals.files[ch],
                          w.locals.sig_map[ch], w.locals.seen, ch, r.v, t)
    IN [w EXCEPT !.v = r.v,
                 !.h = r.h,
                 !.locals.seen = seen1,
                 !.summary.calls = r.calls,
                 !.summary.ok_ids = r.ok_ids,
                 !.summary.ok_sigs = r.ok_sigs,
                 !.summary.errors = IF r.raised THEN @ \cup {ch} ELSE @]

\* One iteration of one of the three loops of process_odoo_approved
OdooOne(kind, acc, n, ok, reg, t) ==
    IF ~Exists(acc.v, APPROVED, n) THEN [acc EXCEPT !.raised = TRUE]
    ELSE
    LET f == acc.v[APPROVED][n]
        signature == _approval_signature(acc.v, n)
    IN IF signature \in DOMAIN acc.seen
       THEN [acc EXCEPT
                !.v = _move_to_done(@, APPROVED, n, <<"DUPLICATE">>, t),
                !.duplicates = Append(@,
                    [status |-> "skipped_duplicate",
                     processor |-> kind,
                     file |-> n,
                     original_file |-> acc.seen[signature].file,
                     archived_as |-> DoneTarget(acc.v, n, <<"DUPLICATE">>, t)])]
       ELSE IF ~Valid(f.content) THEN acc
       ELSE LET called == Call(acc, f, ok, reg) IN
            IF ok
            THEN [called EXCEPT
                     !.v = _move_to_done(@, APPROVED, n, <<>>, t),
                     !.seen = _record_processed_signature(@, signature, n, kind, t)]
            ELSE called

RECURSIVE OdooLoop(_, _, _, _, _, _)
OdooLoop(kind, files, acc, ok, reg, t) ==
    IF files = <<>> \/ acc.raised THEN acc
    ELSE OdooLoop(kind, Tail(files),
                  OdooOne(kind, acc, Head(files), ok[Head(files)], reg, t),
                  ok, reg, t)

\* Variant of process_odoo_approved that does not look at AGENT_ROLE
process_odoo_approved_any(acc, role, imported, ok, reg, t) ==
    IF ~imported THEN [acc EXCEPT !.results = "error"]
    ELSE LET r1 == OdooLoop("odoo_invoice",
                       Listing(acc.v, APPROVED, GlobOdooInvoice), acc, ok, reg, t)
             r2 == OdooLoop("odoo_post_invoice",
                       Listing(r1.v, APPROVED, GlobOdooPostInvoice), r1, ok, reg, t)
             r3 == OdooLoop("odoo_payment",
                       Listing(r2.v, APPROVED, GlobOdooPayment), r2, ok, reg, t)
         IN [r3 EXCEPT !.results = "results"]

\* main.py 268-425.  imported tells whether mcp_servers.odoo_server could be
\* imported; results is the list returned: one error entry ("error"), one
\* skipped entry ("skipped"), or the entries of the three loops ("results").
process_odoo_approved(acc, role, imported, ok, reg, t) ==
    IF ~imported THEN [acc EXCEPT !.results = "error"]
    ELSE IF role = "cloud" THEN [acc EXCEPT !.results = "skipped"]
    ELSE LET r1 == OdooLoop("odoo_invoice",
                       Listing(acc.v, APPROVED, GlobOdooInvoice), acc, ok, reg, t)
             r2 == OdooLoop("odoo_post_invoice",
                       Listing(r1.v, APPROVED, GlobOdooPostInvoice), r1, ok, reg, t)
             r3 == OdooLoop("odoo_payment",
                       Listing(r2.v, APPROVED, GlobOdooPayment), r2, ok, reg, t)
         IN [r3 EXCEPT !.results = "results"]

\* the arguments process_approved passes to process_odoo_approved
OdooArgs(w) ==
    [v |-> w.v, h |-> w.h, raised |-> FALSE,
     calls |-> w.summary.calls, ok_ids |-> w.summary.ok_ids,
     ok_sigs |-> w.summary.ok_sigs,
     seen |-> w.locals.seen, duplicates |-> w.summary.duplicates,
     results |-> "none"]

\* main.py 511-515
OdooBlock(w, role, imported, ok, reg, t) ==
    IF ~w.locals.odoo_files THEN w
    ELSE
    LET r == process_odoo_approved(OdooArgs(w), role, imported, ok, reg, t)
    IN [w EXCEPT !.v = r.v,
                 !.h = r.h,
                 !.locals.seen = r.seen,
                 !.summary.calls = r.calls,
                 !.summary.ok_ids = r.ok_ids,
                 !.summary.ok_sigs = r.ok_sigs,
                 !.summary.duplicates = r.duplicates,
                 !.summary.raised = r.raised,
                 !.summary.odoo = r.results]

RECURSIVE MoveCompleted(_, _, _)
MoveCompleted(files, v, t) ==
    IF files = <<>> THEN v
    ELSE MoveCompleted(Tail(files), _move_to_done(v, APPROVED, Head(files), <<>>, t), t)

_save_processed_approvals(seen) == seen

\* main.py 469-524: the channel blocks in order, then archive the completed
\* tweets, save the registry and return the summary; results are the
\* outcomes the channel actions can have (TRUE: the action succeeds)
PA_RunFrom(p, imported, results) ==
    /\ pa[p].locals.pc = "run"
    /\ \E ok \in [DOMAIN vault[APPROVED] -> results] :
       \E w0 \in {[v |-> vault, h |-> hist,
                   locals |-> pa[p].locals, summary |-> pa[p].summary]} :
       \E w1 \in {ChannelBlock(w0, "email", ok, registry, clock)} :
       \E w2 \in {ChannelBlock(w1, "linkedin", ok, registry, clock)} :
       \E w3 \in {ChannelBlock(w2, "twitter", ok, registry, clock)} :
       \E w4 \in {ChannelBlock(w3, "facebook", ok, registry, clock)} :
       \E w5 \in {ChannelBlock(w4, "instagram", ok, registry, clock)} :
       \E w6 \in {OdooBlock(w5, agent_role[p], imported, ok, registry, clock)} :
          IF w6.summary.raised
          THEN /\ vault' = w6.v
               /\ hist' = w6.h
               /\ registry' = registry
               /\ pa' = [pa EXCEPT ![p].locals = IdleLocals,
                                   ![p].summary = w6.summary]
          ELSE /\ vault' = MoveCompleted(
                               Listing(w6.v, APPROVED, GlobCompletedTwitter),
                               w6.v, clock)
               /\ registry' = _save_processed_approvals(w6.locals.seen)
               /\ hist' = [w6.h EXCEPT !.saved = @ \cup DOMAIN registry']
               /\ pa' = [pa EXCEPT
                     ![p].locals = IF p = "local_executive"
                                   THEN [IdleLocals EXCEPT !.pc = "whatsapp"]
                                   ELSE IdleLocals,
                     ![p].summary = [w6.summary EXCEPT !.returned = TRUE]]
    /\ UNCHANGED <<clock, nextId, agent_role, hvars, cvars, pvars, qvars, rvars>>

PA_RunWith(p, imported) == PA_RunFrom(p, imported, BOOLEAN)

\* a run in which the Odoo server module can be imported
PA_Run(p) == PA_RunWith(p, TRUE)

\* One iteration of process_whatsapp_approved
WhatsappOne(acc, n, ok, reg, t) ==
    LET f == acc.v[APPROVED][n]
        sent == ok /\ Valid(f.content)
        called == [acc EXCEPT !.h = Invoke(@, f, sent, reg)]
    IN IF sent
       THEN [called EXCEPT
                !.v = Rename(@, APPROVED, n, DONE, DoneTarget(acc.v, n, <<>>, t))]
       ELSE called

RECURSIVE WhatsappLoop(_, _, _, _, _)
WhatsappLoop(files, acc, ok, reg, t) ==
    IF files = <<>> THEN acc
    ELSE WhatsappLoop(Tail(files),
                      WhatsappOne(acc, Head(files), ok[Head(files)], reg, t),
                      ok, reg, t)

\* local_executive_agent.py 267-291, called after process_approved returned
WhatsappFrom(p, results) ==
    /\ pa[p].locals.pc = "whatsapp"
    /\ LET scan == Listing(vault, APPROVED, GlobWhatsapp) IN
       \E ok \in [Names(scan) -> results] :
          \E r \in {WhatsappLoop(scan, [v |-> vault, h |-> hist], ok, registry, clock)} :
             /\ vault' = r.v
             /\ hist' = r.h
    /\ pa' = [pa EXCEPT ![p].locals = IdleLocals]
    /\ UNCHANGED <<registry, clock, nextId, agent_role, hvars, cvars, pvars, qvars, rvars>>

process_whatsapp_approved(p) == WhatsappFrom(p, BOOLEAN)

\* The local executive's cycle, with items being approved meanwhile
ApprovedNext ==
    \/ \E n \in ApprovedNames, c \in Contents : PlaceApproved(n, c)
    \/ ClockTick
    \/ PA_Begin("local_executive")
    \/ PA_Run("local_executive")
    \/ process_whatsapp_approved("local_executive")

\* The orchestrator's run loop and the local executive on the same vault
RaceNames == {<<"EMAIL", "SEND", "a">>, <<"ODOO", "INVOICE", "a">>}

RaceNext ==
    \/ \E n \in RaceNames, c \in Contents : PlaceApproved(n, c)
    \/ \E p \in Procs : PA_Begin(p)
    \/ \E p \in Procs, imported \in BOOLEAN : PA_RunWith(p, imported)
    \/ \E p \in Procs : process_whatsapp_approved(p)

----------------------------------------------------------------------------
(* Claim-by-move agents: scripts/cloud/cloud_draft_worker.py,              *)
(* scripts/cloud/odoo_mcp_cloud_service.py and                             *)
(* scripts/local/local_executive_agent.py.  Each polls a watched directory,*)
(* claims a file by renaming it into its In_Progress directory and then    *)
(* processes the claimed file.                                             *)

\* cloud_draft_worker_b is a second process of cloud_draft_worker.py (the
\* script has a run-once mode, CLOUD_DRAFT_ONCE, whose invocations may overlap)
Agents == {"cloud_draft_worker", "cloud_draft_worker_b", "cloud_odoo", "local_executive"}

Kind(a) == IF a = "cloud_draft_worker_b" THEN "cloud_draft_worker" ELSE a

\* the directory each agent's loop lists
Watched(a) ==
    IF Kind(a) = "cloud_draft_worker" THEN NEEDS_ACTION ELSE NEEDS_ACTION_CLOUD

InProgress(a) ==
    IF a = "local_executive" THEN IN_PROGRESS_LOCAL ELSE IN_PROGRESS_CLOUD

NONE == "None"

\* Each claim function renames path into the agent's In_Progress directory
\* and returns the target; FileNotFoundError is caught and None is returned,
\* and so is any other OSError of the rename (err: the operating system
\* refuses the rename of an existing file, e.g. for its permissions).
\* Variant of claim_file without the OSError handler's effect: the rename is
\* taken to have happened
claim_file_moved(v, src, n, err) ==
    IF Exists(v, src, n)
    THEN [v |-> Rename(v, src, n, IN_PROGRESS_CLOUD, n),
          result |-> IF err THEN NONE ELSE IN_PROGRESS_CLOUD]
    ELSE [v |-> v, result |-> NONE]

claim_file(v, src, n, err) ==
    IF Exists(v, src, n) /\ ~err
    THEN [v |-> Rename(v, src, n, IN_PROGRESS_CLOUD, n), result |-> IN_PROGRESS_CLOUD]
    ELSE [v |-> v, result |-> NONE]

claim(v, src, n, err) ==
    IF Exists(v, src, n) /\ ~err
    THEN [v |-> Rename(v, src, n, IN_PROGRESS_CLOUD, n), result |-> IN_PROGRESS_CLOUD]
    ELSE [v |-> v, result |-> NONE]

\* Variant of claim_cloud_draft that copies the file and leaves the source
claim_cloud_draft_copy(v, src, n, err) ==
    IF Exists(v, src, n) /\ ~err
    THEN [v |-> [v EXCEPT ![IN_PROGRESS_LOCAL] = Put(@, n, v[src][n])],
          result |-> IN_PROGRESS_LOCAL]
    ELSE [v |-> v, result |-> NONE]

claim_cloud_draft(v, src, n, err) ==
    IF Exists(v, src, n) /\ ~err
    THEN [v |-> Rename(v, src, n, IN_PROGRESS_LOCAL, n), result |-> IN_PROGRESS_LOCAL]
    ELSE [v |-> v, result |-> NONE]

ClaimCall(a, v, src, n, err) ==
    CASE Kind(a) = "cloud_draft_worker" -> claim_file(v, src, n, err)
      [] a = "cloud_odoo" -> claim(v, src, n, err)
      [] OTHER -> claim_cloud_draft(v, src, n, err)

GlobOdooDraftInvoice(n) == StartsWith(n, <<"ODOO", "DRAFT", "INVOICE">>)

\* the glob of each agent's loop
Candidate(a, n) == IF a = "cloud_odoo" THEN GlobOdooDraftInvoice(n) ELSE TRUE

\* the files the environment (watchers, the cloud side of the sync) creates
ClaimPlacements ==
    { <<NEEDS_ACTION, <<"TASK", "a">>, "c1">>,
      <<NEEDS_ACTION, <<"DRAFT", "TASK", "a">>, "c1">>,
      <<NEEDS_ACTION_CLOUD, <<"ODOO", "DRAFT", "INVOICE", "a">>, "c1">>,
      <<NEEDS_ACTION_CLOUD, <<"ODOO", "DRAFT", "INVOICE", "a">>, "bad">>,
      <<NEEDS_ACTION_CLOUD, <<"DRAFT", "TASK", "a">>, "c1">> }

NoCandidate == [name |-> <<>>, id |-> 0]

IdleAgent == [pc |-> "idle", candidates |-> {}, claimed |-> NoCandidate]

ClaimInit ==
    /\ agents = [a \in Agents |-> IdleAgent]
    /\ claims = [log |-> {}, origin |-> EmptyDict, batch |-> {}, handoff |-> "none"]

CreateItem(dir, n, c) ==
    /\ <<dir, n, c>> \in ClaimPlacements
    /\ hist.placed < MaxFiles
    /\ ~Exists(vault, dir, n)
    /\ vault' = [vault EXCEPT ![dir] = Put(@, n, [content |-> c, id |-> nextId])]
    /\ nextId' = nextId + 1
    /\ hist' = [hist EXCEPT !.placed = @ + 1]
    /\ UNCHANGED <<registry, clock, agent_role, pa, hvars, cvars, pvars, qvars, rvars>>

\* The glob at the head of an agent's polling loop.  A listing that finds
\* nothing leaves every variable as it is.  claims.batch and claims.handoff
\* follow the current call of handoff_cloud_drafts: the drafts it has handed
\* over, and whether it is running, has returned or has raised.  The loop visits the listing in
\* sorted order; the model lets it visit the listed files in any order.
Scan(a) ==
    /\ agents[a].pc = "idle"
    /\ LET found == {n \in DOMAIN vault[Watched(a)] : Candidate(a, n)} IN
       /\ found # {}
       /\ agents' = [agents EXCEPT ![a] =
              [pc |-> "loop",
               candidates |-> {[name |-> n, id |-> vault[Watched(a)][n].id] : n \in found},
               claimed |-> NoCandidate]]
    /\ claims' = IF a = "local_executive"
                 THEN [claims EXCEPT !.batch = {}, !.handoff = "running"]
                 ELSE claims
    /\ UNCHANGED <<avars, hvars, qvars, rvars, pvars>>

AfterItem(st, c) ==
    [pc |-> IF st.candidates \ {c} = {} THEN "idle" ELSE "loop",
     candidates |-> st.candidates \ {c},
     claimed |-> NoCandidate]


\* One iteration of an agent's loop up to the return of its claim call.
\* cloud_draft_worker skips a name that starts with DRAFT_ without a call.
\* The history records what the agent had listed (item) and the identity
\* of the file the call moved (got, 0 when the call returned None).
ClaimStepWith(a, err) ==
    /\ agents[a].pc = "loop"
    /\ \E c \in agents[a].candidates :
          IF Kind(a) = "cloud_draft_worker" /\ c.name[1] = "DRAFT"
          THEN /\ ~err
               /\ agents' = [agents EXCEPT ![a] = AfterItem(@, c)]
               /\ UNCHANGED <<vault, claims>>
          ELSE LET src == Watched(a)
                   r == ClaimCall(a, vault, src, c.name, err)
                   got == IF Exists(vault, src, c.name) THEN vault[src][c.name].id ELSE 0
               IN /\ vault' = r.v
                  /\ claims' = [claims EXCEPT !.log = @ \cup
                         {[agent |-> a, item |-> c.id, src |-> src, name |-> c.name,
                           got |-> IF r.result = NONE THEN 0 ELSE got,
                           result |-> r.result,
                           err |-> err /\ Exists(vault, src, c.name)]},
                         !.handoff =
                            IF a = "local_executive" /\ r.result = NONE
                               /\ agents[a].candidates = {c}
                            THEN "returned" ELSE @]
                  /\ agents' = [agents EXCEPT ![a] =
                         IF r.result = NONE THEN AfterItem(@, c)
                         ELSE [@ EXCEPT !.pc = "process", !.claimed = c]]
    /\ UNCHANGED <<registry, clock, nextId, agent_role, pa, hist, hvars, qvars, rvars, pvars>>

\* the claim calls whose rename the operating system carries out
ClaimStep(a) == ClaimStepWith(a, FALSE)

\* build_draft wraps the task's body in a draft template
build_draft(body) == "draft"

\* cloud_draft_worker.process_one: writes DRAFT_<stem>.md into
\* Needs_Action/cloud; the claimed file stays in In_Progress/cloud.
\* outcome "raised": read_text of the claimed file raises (the file is gone,
\* or its bytes are not UTF-8)
process_one(v, n, outcome, t, id) ==
    IF ~Exists(v, IN_PROGRESS_CLOUD, n) \/ outcome = "raised"
    THEN [v |-> v, raised |-> TRUE, made |-> 0]
    ELSE LET plain == <<"DRAFT">> \o n
             draft_name == IF Exists(v, NEEDS_ACTION_CLOUD, plain)
                           THEN plain \o <<Timestamp(t)>> ELSE plain
             draft == [content |-> build_draft(v[IN_PROGRESS_CLOUD][n].content), id |-> id]
         IN [v |-> [v EXCEPT ![NEEDS_ACTION_CLOUD] = Put(@, draft_name, draft)],
             raised |-> FALSE, made |-> id]

\* odoo_mcp_cloud_service.process_draft_file; outcome is what create_invoice does
process_draft_file(v, n, outcome, t) ==
    IF ~Exists(v, IN_PROGRESS_CLOUD, n) THEN [v |-> v, raised |-> TRUE, made |-> 0]
    ELSE IF ~Valid(v[IN_PROGRESS_CLOUD][n].content)
    THEN [v |-> Rename(v, IN_PROGRESS_CLOUD, n, DONE, <<"ODOO", "INVALID">> \o n),
          raised |-> FALSE, made |-> 0]
    ELSE IF outcome = "raised" THEN [v |-> v, raised |-> TRUE, made |-> 0]
    ELSE [v |-> _move_to_done(v, IN_PROGRESS_CLOUD, n, <<"ODOO", "DRAFT", "PROCESSED">>, t),
          raised |-> FALSE, made |-> 0]

\* Variant of build_local_review_file that names the review by the time alone
build_local_review_file_unnamed(v, n, content, t, id) ==
    LET review_name == <<"LOCAL", "REVIEW">> \o <<Timestamp(t)>>
    IN [v EXCEPT ![PENDING_APPROVAL] = Put(@, review_name, [content |-> "review", id |-> id])]

build_local_review_file(v, n, content, t, id) ==
    LET review_name == <<"LOCAL", "REVIEW">> \o n \o <<Timestamp(t)>>
    IN [v EXCEPT ![PENDING_APPROVAL] = Put(@, review_name, [content |-> "review", id |-> id])]

archive_claimed_source(v, n, t) ==
    _move_to_done(v, IN_PROGRESS_LOCAL, n, <<"CLOUD", "CLAIMED">>, t)

\* the body of handoff_cloud_drafts's loop after a successful claim;
\* outcome "raised": read_text in build_local_review_file raises
handoff_cloud_drafts(v, n, outcome, t, id) ==
    IF ~Exists(v, IN_PROGRESS_LOCAL, n) \/ outcome = "raised"
    THEN [v |-> v, raised |-> TRUE, made |-> 0]
    ELSE [v |-> archive_claimed_source(
                    build_local_review_file(v, n, v[IN_PROGRESS_LOCAL][n].content, t, id), n, t),
          raised |-> FALSE, made |-> id]

\* What an agent does with the file it claimed.  An exception ends
\* cloud_draft_worker (run_forever has no handler) and ends the cycle of the
\* other two agents (their loops catch it).
ProcessWith(a, outcome) ==
    /\ agents[a].pc = "process"
    /\    LET c == agents[a].claimed
              file == IF Exists(vault, InProgress(a), c.name)
                      THEN vault[InProgress(a)][c.name].id ELSE 0
              r == CASE Kind(a) = "cloud_draft_worker" ->
                            process_one(vault, c.name, outcome, clock, nextId)
                     [] a = "cloud_odoo" -> process_draft_file(vault, c.name, outcome, clock)
                     [] OTHER -> handoff_cloud_drafts(vault, c.name, outcome, clock, nextId)
          IN /\ vault' = r.v
             /\ nextId' = IF r.made = 0 THEN nextId ELSE nextId + 1
             /\ claims' = [claims EXCEPT
                    !.origin = IF r.made = 0 THEN @ ELSE Put(@, r.made, file),
                    !.batch = IF a = "local_executive" /\ ~r.raised
                              THEN @ \cup {file} ELSE @,
                    !.handoff = IF a # "local_executive" THEN @
                                ELSE IF r.raised THEN "raised"
                                ELSE IF agents[a].candidates = {c} THEN "returned"
                                ELSE @]
             /\ agents' = [agents EXCEPT ![a] =
                    IF ~r.raised THEN AfterItem(@, c)
                    ELSE IF Kind(a) = "cloud_draft_worker"
                         THEN [pc |-> "crashed", candidates |-> {}, claimed |-> NoCandidate]
                         ELSE IdleAgent]
    /\ UNCHANGED <<registry, clock, agent_role, pa, hist, hvars, qvars, rvars, pvars>>

Process(a) == \E outcome \in {"returned", "raised"} : ProcessWith(a, outcome)

ClaimNext ==
    \/ \E p \in ClaimPlacements : CreateItem(p[1], p[2], p[3])
    \/ ClockTick
    \/ \E a \in Agents : Scan(a)
    \/ \E a \in Agents : ClaimStep(a)
    \/ \E a \in Agents : Process(a)

\* The agents without failures of the processing of a claimed item
ClaimLiveNext ==
    \/ \E p \in ClaimPlacements : CreateItem(p[1], p[2], p[3])
    \/ ClockTick
    \/ \E a \in Agents : Scan(a)
    \/ \E a \in Agents : ClaimStep(a)
    \/ \E a \in Agents : ProcessWith(a, "returned")

\* The agents with claim calls whose rename the operating system may refuse
\* (permissions, cross-device); one refusal in a behaviour
ClaimFaultNext ==
    \/ ClaimLiveNext
    \/ \E a \in Agents : (\A e \in claims.log : ~e.err) /\ ClaimStepWith(a, TRUE)

\* every agent keeps running: its listing, its claim call and its processing
\* of a claimed item happen whenever they stay possible
ClaimFairness ==
    \A a \in Agents :
        /\ WF_vars(Scan(a))
        /\ WF_vars(ClaimStep(a))
        /\ WF_vars(ProcessWith(a, "returned"))

\* The reviewer follows the instruction written into a LOCAL_REVIEW_ file
\* ("Move to /Approved/ if execution should proceed").
ApproveReview(n) ==
    /\ Exists(vault, PENDING_APPROVAL, n)
    /\ StartsWith(n, <<"LOCAL", "REVIEW">>)
    /\ ~Exists(vault, APPROVED, n)
    /\ vault' = Rename(vault, PENDING_APPROVAL, n, APPROVED, n)
    /\ hist' = [hist EXCEPT !.placed = @ + 1]
    /\ UNCHANGED <<registry, clock, nextId, agent_role, pa, hvars, cvars, pvars, qvars, rvars>>

\* The local executive's cycle repeated without end, every channel action
\* succeeding on well-formed items: hand-off of the cloud drafts, then
\* process_approved, then process_whatsapp_approved
ReviewLiveNext ==
    \/ CreateItem(NEEDS_ACTION_CLOUD, <<"DRAFT", "TASK", "a">>, "c1")
    \/ \E n \in ApprovedNames : PlaceApproved(n, "c1")
    \/ \E n \in DOMAIN vault[PENDING_APPROVAL] : ApproveReview(n)
    \/ Scan("local_executive")
    \/ ClaimStep("local_executive")
    \/ ProcessWith("local_executive", "returned")
    \/ PA_BeginFrom("local_executive", FALSE)
    \/ PA_RunFrom("local_executive", TRUE, {TRUE})
    \/ WhatsappFrom("local_executive", {TRUE})

ReviewFairness ==
    /\ WF_vars(Scan("local_executive"))
    /\ WF_vars(ClaimStep("local_executive"))
    /\ WF_vars(ProcessWith("local_executive", "returned"))
    /\ WF_vars(PA_BeginFrom("local_executive", FALSE))
    /\ WF_vars(PA_RunFrom("local_executive", TRUE, {TRUE}))
    /\ WF_vars(WhatsappFrom("local_executive", {TRUE}))

----------------------------------------------------------------------------
(* OfflineQueue and GracefulDegradation of utils/error_recovery.py         *)

MaxQueue == 3
MaxBacklog == 2
MaxDirect == 2
MaxStamp == 1

QUEUE_DIR == "Offline_Queue"
COMPLETED_DIR == "Offline_Queue/Completed"
FAILED_DIR == "Offline_Queue/Failed"

\* the payloads handed to the executor: None or {} (falsy) and a non-empty dict
Payloads == {"empty", "args"}

\* OfflineQueue.enqueue writes <item_id>.json into Offline_Queue.  The id
\* carries the timestamp with microseconds: every call gets its own id.
enqueue(q, action_type, service, data, priority, t) ==
    LET item_id == Cardinality(DOMAIN q) + 1
    IN Put(q, item_id,
           [id |-> item_id, action_type |-> action_type, service |-> service,
            data |-> data, priority |-> priority, queued_at |-> t,
            attempts |-> 0, status |-> "pending", dir |-> QUEUE_DIR])

\* Variant of the sort key that ignores the priority
KeyLess_time(a, b) == a.queued_at < b.queued_at

\* the sort key of get_pending: (priority, queued_at), compared as tuples
KeyLess(a, b) ==
    \/ a.priority < b.priority
    \/ a.priority = b.priority /\ a.queued_at < b.queued_at

\* sorted(): stable insertion of x into a sorted list
RECURSIVE InsertSorted(_, _)
InsertSorted(x, s) ==
    IF s = <<>> THEN <<x>>
    ELSE IF KeyLess(x, Head(s)) THEN <<x>> \o s
    ELSE <<Head(s)>> \o InsertSorted(x, Tail(s))

RECURSIVE sorted(_)
sorted(s) ==
    IF s = <<>> THEN <<>>
    ELSE InsertSorted(s[Len(s)], sorted(SubSeq(s, 1, Len(s) - 1)))

\* the files glob('*.json') finds in Offline_Queue, in the order listed
InQueueDir(q) == {i \in DOMAIN q : q[i].dir = QUEUE_DIR}

RECURSIVE FilterPending(_, _, _)
FilterPending(q, listed, service) ==
    IF listed = <<>> THEN <<>>
    ELSE LET item == q[Head(listed)]
             rest == FilterPending(q, Tail(listed), service)
         IN IF item.status = "pending" /\ (service = "None" \/ item.service = service)
            THEN <<item>> \o rest ELSE rest

\* OfflineQueue.get_pending; listed is the order in which glob yields the files
get_pending(q, listed, service) == sorted(FilterPending(q, listed, service))

\* Variant of mark_failed that does not test whether the file is in the queue
mark_failed_any(q, item_id, error) ==
    [q EXCEPT ![item_id].status = "failed", ![item_id].dir = FAILED_DIR]

mark_failed(q, item_id, error) ==
    IF item_id \in InQueueDir(q)
    THEN [q EXCEPT ![item_id].status = "failed", ![item_id].dir = FAILED_DIR]
    ELSE q

\* Variant of mark_completed that files the item as failed
mark_completed_failed(q, item_id) == mark_failed(q, item_id, "")

mark_completed(q, item_id) ==
    IF item_id \in InQueueDir(q)
    THEN [q EXCEPT ![item_id].status = "completed", ![item_id].dir = COMPLETED_DIR]
    ELSE q

\* Variant of increment_attempt that leaves the count as it is
increment_attempt_lost(q, item_id) == q

increment_attempt(q, item_id) ==
    IF item_id \in InQueueDir(q)
    THEN [q EXCEPT ![item_id].attempts = @ + 1]
    ELSE q

\* the permutations of a set, as sequences: the orders glob may list files in
Perms(S) ==
    {f \in [1..Cardinality(S) -> S] : \A i, j \in 1..Cardinality(S) : i # j => f[i] # f[j]}

\* Variant of execute_with_fallback without the handler around the fallback:
\* an error of the fallback reaches the caller
execute_with_fallback_surfacing(h, q, service, action, fallback_action, queue_on_failure, action_data, t) ==
    IF ~is_available(h, service, t)
    THEN [health |-> h, queue |-> q,
          ret |-> IF fallback_action = "ok" THEN "fallback_result"
                  ELSE IF fallback_action = "raise" THEN "raised" ELSE "None",
          primary |-> 0, fallback |-> IF fallback_action = "none" THEN 0 ELSE 1,
          rs |-> 0, rf |-> 0]
    ELSE IF action = "ok"
         THEN [health |-> record_success(h, service, t), queue |-> q, ret |-> "result",
               primary |-> 1, fallback |-> 0, rs |-> 1, rf |-> 0]
         ELSE [health |-> record_failure(h, service, "error", t), queue |-> q,
               ret |-> IF fallback_action = "ok" THEN "fallback_result"
                       ELSE IF fallback_action = "raise" THEN "raised" ELSE "None",
               primary |-> 1, fallback |-> IF fallback_action = "none" THEN 0 ELSE 1,
               rs |-> 0, rf |-> 1]

\* GracefulDegradation.execute_with_fallback.  action and fallback_action
\* stand for what the callables do when called ("ok" returns, "raise"
\* raises); fallback_action "none" is a call without a fallback.  The
\* fields primary, fallback, rs and rf count the calls of the primary
\* action, the fallback, record_success and record_failure.
execute_with_fallback(h, q, service, action, fallback_action, queue_on_failure, action_data, t) ==
    LET tried == IF fallback_action = "none" THEN 0 ELSE 1
        queued == IF queue_on_failure /\ action_data # "empty"
                  THEN enqueue(q, "unknown", service, action_data, 5, t)
                  ELSE q
    IN IF ~is_available(h, service, t)
       THEN IF fallback_action = "ok"
            THEN [health |-> h, queue |-> q, ret |-> "fallback_result",
                  primary |-> 0, fallback |-> 1, rs |-> 0, rf |-> 0]
            ELSE [health |-> h, queue |-> queued, ret |-> "None",
                  primary |-> 0, fallback |-> tried, rs |-> 0, rf |-> 0]
       ELSE IF action = "ok"
            THEN [health |-> record_success(h, service, t), queue |-> q,
                  ret |-> "result",
                  primary |-> 1, fallback |-> 0, rs |-> 1, rf |-> 0]
            ELSE LET h1 == record_failure(h, service, "error", t)
                 IN IF fallback_action = "ok"
                    THEN [health |-> h1, queue |-> q, ret |-> "fallback_result",
                          primary |-> 1, fallback |-> 1, rs |-> 0, rf |-> 1]
                    ELSE [health |-> h1, queue |-> queued, ret |-> "None",
                          primary |-> 1, fallback |-> tried, rs |-> 0, rf |-> 1]

QueueInit ==
    /\ queue = EmptyDict
    /\ exec = [op |-> "none",
               call |-> [service |-> NONE, available |-> TRUE, ret |-> "None",
                         primary |-> 0, fallback |-> 0],
               third |-> [s \in Services |-> -1],
               handed |-> <<>>]

\* the history kept with the health record, after rs calls of
\* record_success and rf calls of record_failure for the service s
HealthHistory(s, rs, rf) ==
    /\ failCalls' = [failCalls EXCEPT ![s] = IF rs > 0 THEN rf ELSE @ + rf]
    /\ trace' = [trace EXCEPT ![s] =
                    IF rs > 0 /\ rf > 0 THEN <<HEALTHY, get_status(health', s)>>
                    ELSE IF rs > 0 THEN <<get_status(health', s)>>
                    ELSE IF rf > 0 THEN Append(@, get_status(health', s))
                    ELSE @]
    /\ lastCall' = [lastCall EXCEPT ![s] =
                       IF rf > 0 THEN "record_failure"
                       ELSE IF rs > 0 THEN "record_success" ELSE @]

\* One call of execute_with_fallback.  exec.third keeps, for each service,
\* the time of the third failure of the current run of failures (-1 before it).
\* The calls of one behaviour are all for the service of the first call: a
\* call reads and writes only that service's entry of the health file.
Execute(s, action, fallback_action, queue_on_failure, action_data) ==
    LET r == execute_with_fallback(health, queue, s, action, fallback_action,
                                   queue_on_failure, action_data, now)
    IN /\ exec.call.service \in {NONE, s}
       /\ r.rf = 1 => failCalls[s] < MaxFailures
       /\ Cardinality(DOMAIN r.queue) <= MaxBacklog
       /\ health' = r.health
       /\ queue' = r.queue
       /\ HealthHistory(s, r.rs, r.rf)
       /\ exec' = [op |-> "execute",
                   call |-> [service |-> s,
                             available |-> is_available(health, s, now),
                             ret |-> r.ret, primary |-> r.primary,
                             fallback |-> r.fallback],
                   third |-> [exec.third EXCEPT ![s] =
                                 IF r.rs = 1 THEN -1
                                 ELSE IF r.rf = 1 /\ failCalls[s] = failure_threshold - 1
                                      THEN now
                                 ELSE @],
                   handed |-> <<>>]
       /\ UNCHANGED <<now, avars, cvars, pvars, rvars>>

ExecNext ==
    \/ \E s \in Services, action \in {"ok", "raise"},
          fallback_action \in {"none", "ok", "raise"},
          queue_on_failure \in BOOLEAN, action_data \in Payloads :
          Execute(s, action, fallback_action, queue_on_failure, action_data)
    \/ Tick

\* The loop of process_offline_queue from the k-th item of the list that
\* get_pending returned.  outcomes[k] is what the processor does with that
\* item: it returns true ("true") or false ("false"), or raises ("raise").
\* The test of the attempts reads the item as get_pending loaded it, before
\* increment_attempt rewrote the file.
RECURSIVE SweepFrom(_, _, _, _, _, _, _)
SweepFrom(h, q, service, pending, outcomes, t, k) ==
    IF k > Len(pending)
    THEN [health |-> h, queue |-> q, handed |-> <<>>, rs |-> 0, rf |-> 0]
    ELSE LET item == pending[k]
             q1 == increment_attempt(q, item.id)
             q2 == IF item.attempts >= 5
                   THEN mark_failed(q1, item.id, "Max attempts reached") ELSE q1
         IN IF outcomes[k] = "true"
            THEN LET rest == SweepFrom(record_success(h, service, t),
                                       mark_completed(q1, item.id),
                                       service, pending, outcomes, t, k + 1)
                 IN [rest EXCEPT !.handed = <<item.id>> \o @, !.rs = @ + 1]
            ELSE IF outcomes[k] = "false"
            THEN LET rest == SweepFrom(h, q2, service, pending, outcomes, t, k + 1)
                 IN [rest EXCEPT !.handed = <<item.id>> \o @]
            ELSE [health |-> record_failure(h, service, "error", t), queue |-> q2,
                  handed |-> <<item.id>>, rs |-> 0, rf |-> 1]

\* Variant of process_offline_queue without the test of the availability
process_offline_queue_always(h, q, service, listed, outcomes, t) ==
    SweepFrom(h, q, service, get_pending(q, listed, service), outcomes, t, 1)

\* GracefulDegradation.process_offline_queue
process_offline_queue(h, q, service, listed, outcomes, t) ==
    IF ~is_available(h, service, t)
    THEN [health |-> h, queue |-> q, handed |-> <<>>, rs |-> 0, rf |-> 0]
    ELSE SweepFrom(h, q, service, get_pending(q, listed, service), outcomes, t, 1)

\* A caller puts an action into the offline queue, which holds fewer than
\* max items.
Enqueue(s, priority, max) ==
    /\ Cardinality(DOMAIN queue) < max
    /\ now <= MaxStamp
    /\ queue' = enqueue(queue, "action", s, "args", priority, now)
    /\ exec' = [exec EXCEPT !.op = "enqueue", !.handed = <<>>]
    /\ UNCHANGED <<hvars, avars, cvars, pvars, rvars>>

\* One call of get_pending; exec.handed keeps the ids of the list returned.
GetPending(service, listed) ==
    LET r == get_pending(queue, listed, service)
    IN /\ exec' = [exec EXCEPT !.op = "get_pending", !.call.service = service,
                               !.handed = [k \in 1..Len(r) |-> r[k].id]]
       /\ UNCHANGED <<queue, hvars, avars, cvars, pvars, rvars>>

\* a caller files a queued item as completed
MarkCompleted(item_id) ==
    /\ queue' = mark_completed(queue, item_id)
    /\ exec' = [exec EXCEPT !.op = "mark_completed", !.handed = <<>>]
    /\ UNCHANGED <<hvars, avars, cvars, pvars, rvars>>

PendingNext ==
    \/ \E s \in Services, priority \in {1, 5, 7} : Enqueue(s, priority, MaxQueue)
    \/ \E item_id \in InQueueDir(queue) : MarkCompleted(item_id)
    \/ \E service \in Services \cup {NONE}, listed \in Perms(InQueueDir(queue)) :
          GetPending(service, listed)
    \/ now <= MaxStamp /\ Tick

\* One call of process_offline_queue; outcomes[k] is what the processor does
\* with the k-th item of the list.  The sweeps of one behaviour are all for
\* the service of the first sweep.
Sweep(s, listed, outcomes) ==
    LET r == process_offline_queue(health, queue, s, listed, outcomes, now)
    IN /\ exec.call.service \in {NONE, s}
       /\ r.rf = 1 => failCalls[s] < MaxFailures
       /\ health' = r.health
       /\ queue' = r.queue
       /\ HealthHistory(s, r.rs, r.rf)
       /\ exec' = [op |-> "sweep",
                   call |-> [service |-> s,
                             available |-> is_available(health, s, now),
                             ret |-> "None", primary |-> 0, fallback |-> 0],
                   third |-> exec.third,
                   handed |-> <<>>]
       /\ UNCHANGED <<now, avars, cvars, pvars, rvars>>

Outcomes(q, listed, s) ==
    [1..Len(FilterPending(q, listed, s)) -> {"true", "false", "raise"}]

\* the queue is filled by the executor, whose items have the default priority
QueueNext ==
    \/ \E s \in Services : Enqueue(s, 5, MaxBacklog)
    \/ \E s \in Services, listed \in Perms(InQueueDir(queue)) :
          \E outcomes \in Outcomes(queue, listed, s) : Sweep(s, listed, outcomes)
    \/ Tick

\* a caller files a queue item as failed; exec.handed keeps the id given
MarkFailed(item_id) ==
    /\ queue' = mark_failed(queue, item_id, "error")
    /\ exec' = [exec EXCEPT !.op = "mark_failed", !.handed = <<item_id>>]
    /\ UNCHANGED <<hvars, avars, cvars, pvars, rvars>>

\* a caller counts one attempt for a queue item, MaxDirect times at most
IncrementAttempt(item_id) ==
    /\ queue[item_id].attempts < MaxDirect
    /\ queue' = increment_attempt(queue, item_id)
    /\ exec' = [exec EXCEPT !.op = "increment_attempt", !.handed = <<item_id>>]
    /\ UNCHANGED <<hvars, avars, cvars, pvars, rvars>>

\* One call of process_offline_queue; exec.handed keeps the ids of the items
\* handed to the processor, in order.
ProcessOfflineQueue(s, listed, outcomes) ==
    \E r \in {process_offline_queue(health, queue, s, listed, outcomes, now)} :
       /\ health' = r.health
       /\ queue' = r.queue
       /\ exec' = [exec EXCEPT !.op = "sweep", !.call.service = s,
                               !.call.available = is_available(health, s, now),
                               !.handed = r.handed]
       /\ UNCHANGED <<now, failCalls, trace, lastCall, avars, cvars, pvars, rvars>>

\* the calls of the queue's methods and the sweeps of one service
LifeNext ==
    \/ Enqueue("gmail", 5, MaxBacklog)
    \/ \E item_id \in DOMAIN queue : MarkCompleted(item_id)
    \/ \E item_id \in DOMAIN queue : MarkFailed(item_id)
    \/ \E item_id \in DOMAIN queue : IncrementAttempt(item_id)
    \/ \E listed \in Perms(InQueueDir(queue)) :
          \E outcomes \in Outcomes(queue, listed, "gmail") :
             ProcessOfflineQueue("gmail", listed, outcomes)
    \/ now <= MaxStamp /\ Tick

\* a timestamp of the health file, seen one recovery window and a tick
\* later; a stamp older than the clock's range stays at its start, which is
\* more than a recovery window ago
Older(rec) ==
    [k \in DOMAIN rec |->
        IF k \in {"last_check", "last_success", "last_failure"}
        THEN (IF rec[k] > recovery_window THEN rec[k] - (recovery_window + 1) ELSE 0)
        ELSE rec[k]]

\* Time advances past a recovery window, without end: at the end of the
\* clock's range the stamps of the health file move back instead of the
\* clock moving on.
Elapse ==
    /\ IF now + recovery_window + 1 <= MaxTime
       THEN now' = now + recovery_window + 1 /\ UNCHANGED health
       ELSE now' = now /\ health' = [s \in DOMAIN health |-> Older(health[s])]
    /\ UNCHANGED <<failCalls, trace, lastCall, avars, cvars, pvars, qvars, rvars>>

\* repeated sweeps of one service while time passes
QueueLiveNext ==
    \/ \E s \in Services : Enqueue(s, 5, MaxBacklog)
    \/ \E listed \in Perms(InQueueDir(queue)) :
          \E outcomes \in Outcomes(queue, listed, "gmail") :
             ProcessOfflineQueue("gmail", listed, outcomes)
    \/ Elapse

\* sweeps are repeated and time passes
QueueFairness ==
    /\ WF_vars(Elapse)
    /\ WF_vars(\E listed \in Perms(InQueueDir(queue)) :
                  \E outcomes \in Outcomes(queue, listed, "gmail") :
                     ProcessOfflineQueue("gmail", listed, outcomes))

----------------------------------------------------------------------------
(* with_retry: retry with exponential backoff *)

MaxAttempts == 4

\* sys.float_info.max_exp: 2.0 ** x raises OverflowError from this x on
FLOAT_MAX_EXP == 1024

\* The arguments of the decorator.  The delays are whole seconds; log2_base
\* is the binary logarithm of exponential_base: 1.0, 2.0 and 2.0 ** 600.
RetryConfigs ==
    [max_attempts : 1..MaxAttempts, base_delay : {1, 2}, max_delay : {1, 3, 8},
     log2_base : {0, 1, 600}]

\* Variant of the test of the error that retries on every error
Retryable_any(outcome) == TRUE

\* except retryable_exceptions
Retryable(outcome) == outcome = "retry"

RECURSIVE Pow2(_)
Pow2(x) == IF x = 0 THEN 1 ELSE 2 * Pow2(x - 1)

\* min(base_delay * (exponential_base ** attempt), max_delay).  The power is
\* a float: it raises OverflowError when it is 2 ** FLOAT_MAX_EXP or more.
\* A power of 2 ** 4 or more exceeds every max_delay of RetryConfigs.
Delay(cfg, attempt) ==
    LET x == cfg.log2_base * attempt
    IN IF x >= 4 THEN cfg.max_delay
       ELSE IF cfg.base_delay * Pow2(x) < cfg.max_delay
            THEN cfg.base_delay * Pow2(x) ELSE cfg.max_delay

\* the loop of the wrapper from the given attempt on (attempt counts from 0)
RECURSIVE RetryFrom(_, _, _)
RetryFrom(cfg, outcomes, attempt) ==
    LET outcome == outcomes[attempt + 1]
    IN IF outcome = "ok"
       THEN [calls |-> 1, sleeps |-> <<>>, result |-> "value"]
       ELSE IF Retryable(outcome)
       THEN IF attempt = cfg.max_attempts - 1
            THEN [calls |-> 1, sleeps |-> <<>>, result |-> "retryable_error"]
            ELSE IF cfg.log2_base * attempt >= FLOAT_MAX_EXP
            THEN [calls |-> 1, sleeps |-> <<>>, result |-> "OverflowError"]
            ELSE LET rest == RetryFrom(cfg, outcomes, attempt + 1)
                 IN [rest EXCEPT !.calls = @ + 1,
                                 !.sleeps = <<Delay(cfg, attempt)>> \o @]
       ELSE [calls |-> 1, sleeps |-> <<>>, result |-> "other_error"]

\* one call of a function wrapped by with_retry: the number of calls of the
\* function, the delays slept, and what the wrapper returns or raises
with_retry(cfg, outcomes) == RetryFrom(cfg, outcomes, 0)

\* A call depends on nothing an earlier call left behind: a behaviour holds
\* one call.
WithRetry(cfg, outcomes) ==
    LET r == with_retry(cfg, outcomes)
    IN /\ retry.op = "none"
       /\ retry' = [op |-> "called", cfg |-> cfg, outcomes |-> outcomes,
                    calls |-> r.calls, sleeps |-> r.sleeps, result |-> r.result]
       /\ UNCHANGED <<dash, hvars, avars, cvars, pvars, qvars>>

\* outcomes tells what the wrapped function does at each attempt: it returns
\* ("ok"), raises an error of retryable_exceptions ("retry") or raises
\* another error ("other")
RetryNext ==
    \E cfg \in RetryConfigs :
        \E outcomes \in [1..cfg.max_attempts -> {"ok", "retry", "other"}] :
            WithRetry(cfg, outcomes)

----------------------------------------------------------------------------
(* The single-writer gate of Dashboard.md *)

MaxWrites == 3

\* The lock file State/dashboard_writer.lock: absent, unreadable, not JSON
\* ("garbage"), JSON that is no object ("array"), or an object, given by the
\* value of its owner key ("" when the key is missing).
Owners == {"local", "LOCAL", "Local", "cloud", ""}
Locks == {"absent", "unreadable", "garbage", "array"} \cup Owners

\* LOCAL_EXEC_AGENT in the environment of the calling process
Envs == {"unset", "1", "0"}

\* Variant of str.lower that leaves the string as it is
lower_same(str) == str

\* str.lower on the owners
lower(str) == IF str \in {"LOCAL", "Local"} THEN "local" ELSE str

\* update_dashboard: the gate and the write of Dashboard.md at time t
update_dashboard(d, env, t) ==
    IF /\ d.lock # "absent"
       /\ d.lock \in Owners
       /\ lower(d.lock) = "local" /\ env # "1"
    THEN [d EXCEPT !.op = "skipped", !.env = env]
    ELSE [d EXCEPT !.op = "written", !.env = env,
                   !.content = [stamp |-> t, merged |-> FALSE], !.writes = @ + 1]

\* write_dashboard_lock; owned records that the local executive has written
\* the lock file at least once
write_dashboard_lock(d) == [d EXCEPT !.lock = "local", !.owned = TRUE]

ToolsInit ==
    /\ retry = [op |-> "none", cfg |-> [max_attempts |-> 1, base_delay |-> 1,
                                        max_delay |-> 1, log2_base |-> 0],
                outcomes |-> <<>>, calls |-> 0, sleeps |-> <<>>, result |-> "none"]
    /\ dash = [lock |-> "absent", content |-> [stamp |-> -1, merged |-> FALSE],
               writes |-> 0, op |-> "none", env |-> "unset", owned |-> FALSE]

\* the lock file is written, damaged or removed by hand or by another tool
EditLock(lock) ==
    /\ dash' = [dash EXCEPT !.lock = lock, !.op = "lock_edited"]
    /\ UNCHANGED <<retry, hvars, avars, cvars, pvars, qvars>>

\* the scheduler, or any other process, calls update_dashboard
UpdateDashboard(env) ==
    /\ dash.writes < MaxWrites
    /\ dash' = update_dashboard(dash, env, now)
    /\ UNCHANGED <<retry, hvars, avars, cvars, pvars, qvars>>

\* update_dashboard_single_writer of the local executive; merged tells
\* whether Logs/merged_updates.md exists and is appended to the dashboard
UpdateDashboardSingleWriter(merged) ==
    /\ dash.writes < MaxWrites
    /\ dash' = [update_dashboard(write_dashboard_lock(dash), "1", now)
                   EXCEPT !.content.merged = merged, !.op = "single_writer"]
    /\ UNCHANGED <<retry, hvars, avars, cvars, pvars, qvars>>

\* write_text of write_dashboard_lock opens the lock file for writing, which
\* empties it, and writes the record afterwards: until then a reader finds
\* text that is not JSON.
LockWriteBegin ==
    /\ dash.lock # "garbage"
    /\ dash.writes < MaxWrites
    /\ dash' = [dash EXCEPT !.lock = "garbage", !.op = "lock_open"]
    /\ UNCHANGED <<retry, hvars, avars, cvars, pvars, qvars>>

\* The local executive rewrites the lock and the dashboard in every cycle that
\* merged updates, while the scheduler, which does not set LOCAL_EXEC_AGENT,
\* calls update_dashboard at any time.
LockNext ==
    \/ LockWriteBegin
    \/ \E merged \in BOOLEAN : dash.lock = "garbage" /\ UpdateDashboardSingleWriter(merged)
    \/ \E env \in {"unset", "0"} : UpdateDashboard(env)
    \/ Tick

DashNext ==
    \/ \E lock \in Locks : EditLock(lock)
    \/ \E env \in Envs : UpdateDashboard(env)
    \/ \E merged \in BOOLEAN : UpdateDashboardSingleWriter(merged)
    \/ Tick

----------------------------------------------------------------------------
(* The write path of api_server.py and process_rejected of main.py         *)

\* the approval ids a client sends: the stems of the files that
\* _request_email_approval creates
ApprovalIds == {<<"EMAIL", "SEND", Timestamp(t)>> : t \in 0..MaxClock}

NoFile == <<>>

\* _request_email_approval: write_text of Pending_Approval/EMAIL_SEND_<ts>.md
_request_email_approval(v, t, id) ==
    [v EXCEPT ![PENDING_APPROVAL] =
        Put(@, <<"EMAIL", "SEND", Timestamp(t)>>, [content |-> "c1", id |-> id])]

\* the file of Pending_Approval whose stem is approval_id, or None
_resolve_approval_file(v, approval_id) ==
    IF Exists(v, PENDING_APPROVAL, approval_id) THEN approval_id ELSE NoFile

\* Variant of _move_approval_file that resolves the id in Done as well
_move_approval_file_archived(v, approval_id, destination, t, err) ==
    LET from == IF Exists(v, DONE, approval_id) THEN DONE ELSE PENDING_APPROVAL
    IN IF ~Exists(v, from, approval_id) \/ err THEN [v |-> v, status |-> "error"]
       ELSE [v |-> Rename(v, from, approval_id, destination, approval_id),
             status |-> "success"]

\* err: the rename raises
_move_approval_file(v, approval_id, destination, t, err) ==
    LET source == _resolve_approval_file(v, approval_id)
        target == IF Exists(v, destination, source)
                  THEN source \o <<Timestamp(t)>> ELSE source
    IN IF source = NoFile \/ err THEN [v |-> v, status |-> "error"]
       ELSE [v |-> Rename(v, PENDING_APPROVAL, source, destination, target),
             status |-> "success"]

\* the patterns a client sends to the cleanup action
Patterns == {"", "*", "TASK_*"}

\* Path.glob of the pattern in Needs_Action, files only
GlobNeedsAction(v, pattern) ==
    {n \in DOMAIN v[NEEDS_ACTION] :
        \/ pattern = "*"
        \/ pattern = "TASK_*" /\ StartsWith(n, <<"TASK">>)}

_cleanup_needs_action(v, pattern, dry_run) ==
    IF pattern = "" THEN [v |-> v, status |-> "error", deletedCount |-> 0]
    ELSE LET files == GlobNeedsAction(v, pattern) IN
         IF dry_run THEN [v |-> v, status |-> "success", deletedCount |-> 0]
         ELSE [v |-> [v EXCEPT ![NEEDS_ACTION] =
                         [n \in (DOMAIN @) \ files |-> @[n]]],
               status |-> "success", deletedCount |-> Cardinality(files)]

IdleRejected == [pc |-> "idle", files |-> <<>>, listed |-> {}, moved |-> 0,
                 result |-> "none", moved_count |-> 0]

ApiInit ==
    /\ api = [op |-> "none", id |-> NoFile, status |-> "none", calls |-> 0]
    /\ rej = [p \in Procs |-> IdleRejected]

\* POST /api/ai/email/request-approval
RequestEmailApproval ==
    /\ hist.placed < MaxFiles
    /\ vault' = _request_email_approval(vault, clock, nextId)
    /\ nextId' = nextId + 1
    /\ hist' = [hist EXCEPT !.placed = @ + 1]
    /\ api' = [op |-> "request", id |-> <<"EMAIL", "SEND", Timestamp(clock)>>,
               status |-> "success", calls |-> (api.calls + 1) % 2]
    /\ UNCHANGED <<registry, clock, agent_role, pa, rej, loop, hvars, cvars, qvars, rvars>>

\* POST /api/approvals/{approval_id}/approve and .../reject
MoveApproval(approval_id, destination, err) ==
    /\ destination \in {APPROVED, REJECTED}
    /\ LET r == _move_approval_file(vault, approval_id, destination, clock, err) IN
       /\ vault' = r.v
       /\ api' = [op |-> IF destination = APPROVED THEN "approve" ELSE "reject",
                  id |-> approval_id, status |-> r.status,
                  calls |-> (api.calls + 1) % 2]
    /\ UNCHANGED <<registry, clock, nextId, agent_role, pa, hist, rej, loop, hvars, cvars, qvars, rvars>>

\* POST /api/maintenance/cleanup-needs-action
CleanupNeedsAction(pattern, dry_run) ==
    /\ LET r == _cleanup_needs_action(vault, pattern, dry_run) IN
       /\ vault' = r.v
       /\ api' = [op |-> "cleanup", id |-> NoFile, status |-> r.status,
                  calls |-> (api.calls + 1) % 2]
    /\ UNCHANGED <<registry, clock, nextId, agent_role, pa, hist, rej, loop, hvars, cvars, qvars, rvars>>

\* process_rejected: the listing REJECTED.glob("*.md").  A listing that finds
\* nothing returns moved_count 0 and moves nothing; the model leaves it out.
PR_Scan(p) ==
    /\ rej[p].pc = "idle"
    /\ LET files == Listing(vault, REJECTED, LAMBDA n : TRUE) IN
       /\ files # <<>>
       /\ rej' = [rej EXCEPT ![p] =
              [pc |-> "loop", files |-> files,
               listed |-> {vault[REJECTED][n].id : n \in Names(files)},
               moved |-> 0, result |-> "none", moved_count |-> 0]]
    /\ UNCHANGED <<api, loop, avars, hvars, cvars, qvars, rvars>>

\* One iteration of the loop of process_rejected, with the return after the
\* last one.  The rename of a file that is gone raises and ends the call.
PR_Move(p) ==
    /\ rej[p].pc = "loop"
    /\ LET n == Head(rej[p].files) IN
       IF ~Exists(vault, REJECTED, n)
       THEN /\ rej' = [rej EXCEPT ![p].pc = "idle", ![p].result = "raised"]
            /\ UNCHANGED vault
       ELSE /\ vault' = _move_to_done(vault, REJECTED, n, <<"REJECTED">>, clock)
            /\ rej' = [rej EXCEPT
                   ![p].files = Tail(@),
                   ![p].moved = @ + 1,
                   ![p].pc = IF Tail(rej[p].files) = <<>> THEN "idle" ELSE "loop",
                   ![p].result = IF Tail(rej[p].files) = <<>> THEN "returned" ELSE "none",
                   ![p].moved_count = IF Tail(rej[p].files) = <<>>
                                      THEN rej[p].moved + 1 ELSE 0]
    /\ UNCHANGED <<api, loop, registry, clock, nextId, agent_role, pa, hist, hvars, cvars, qvars, rvars>>

\* The API's write path, the files that watchers put into Needs_Action, and
\* process_rejected run by the orchestrator and by the local executive
ApiNext ==
    \/ RequestEmailApproval
    \/ \E id \in ApprovalIds, d \in {APPROVED, REJECTED}, err \in BOOLEAN : MoveApproval(id, d, err)
    \/ \E pattern \in Patterns, dry_run \in BOOLEAN : CleanupNeedsAction(pattern, dry_run)
    \/ \E pl \in ClaimPlacements : CreateItem(pl[1], pl[2], pl[3])
    \/ ClockTick
    \/ \E p \in Procs : PR_Scan(p)
    \/ \E p \in Procs : PR_Move(p)

----------------------------------------------------------------------------
(* RalphWiggumLoop of utils/ralph_wiggum.py                                 *)

MaxIterations == 3

\* the completion_promise arguments; "" is a promise that is not set
Promises == {"", "TASK_COMPLETE"}

\* what run_claude returns, as the sequence of the words of the output
Outputs ==
    { <<>>, <<"working">>, <<"[ERROR]">>,
      <<"done", "TASK_COMPLETE">>,
      <<"<promise>", "TASK_COMPLETE", "</promise>">> }

\* Python's  s in output
Contains(output, word) == word = "" \/ \E i \in 1..Len(output) : output[i] = word

check_promise_completion(output, promise) ==
    IF promise # "" /\ \E i \in 1..(Len(output) - 2) :
           output[i] = "<promise>" /\ output[i + 1] = promise /\ output[i + 2] = "</promise>"
    THEN TRUE
    ELSE Contains(output, promise)

\* in_done, in_needs_action: the file's name exists in Done, in Needs_Action
check_file_completion(completion_file, in_done, in_needs_action) ==
    IF completion_file = NONE THEN FALSE
    ELSE IF in_done THEN TRUE
    ELSE IF ~in_needs_action THEN in_done
    ELSE FALSE

is_complete(state, last_output, in_done, in_needs_action) ==
    IF state.completion_promise # ""
          /\ check_promise_completion(last_output, state.completion_promise)
    THEN TRUE
    ELSE state.completion_file # NONE
          /\ check_file_completion(state.completion_file, in_done, in_needs_action)

\* create_state
create_state(completion_promise, max_iterations, completion_file) ==
    [completion_promise |-> completion_promise,
     max_iterations |-> max_iterations,
     completion_file |-> completion_file,
     current_iteration |-> 0,
     status |-> "pending",
     last_output |-> <<>>,
     completed |-> FALSE]

\* calls: run_claude calls of the call; satisfied: an iteration's output
\* satisfied is_complete; logs: the vault has its Logs directory
LoopInit ==
    loop = [pc |-> "idle", state |-> create_state("", 0, NONE), calls |-> 0,
            satisfied |-> FALSE, logs |-> TRUE, result |-> "none"]

\* _log_completion opens Logs/<date>.json for writing: it raises when the
\* vault has no Logs directory (the constructor creates State only)
_log_completion(l) == [l EXCEPT !.pc = "done",
                                !.result = IF l.logs THEN "returned" ELSE "raised"]

\* execute_loop up to its while loop
LoopStart(completion_promise, max_iterations, completion_file, logs) ==
    /\ loop.pc = "idle"
    /\ loop' = [pc |-> "running",
                state |-> [create_state(completion_promise, max_iterations, completion_file)
                              EXCEPT !.status = "running"],
                calls |-> 0, satisfied |-> FALSE, logs |-> logs, result |-> "none"]
    /\ UNCHANGED <<api, rej, hvars, avars, cvars, qvars, rvars>>

\* one iteration of the while loop; output is what run_claude returned
LoopIterate(output, in_done, in_needs_action) ==
    /\ loop.pc = "running"
    /\ loop.state.current_iteration < loop.state.max_iterations
    /\ LET st == [loop.state EXCEPT !.current_iteration = @ + 1, !.last_output = output]
           complete == is_complete(st, output, in_done, in_needs_action)
       IN loop' = IF complete
                  THEN _log_completion(
                           [loop EXCEPT !.state = [st EXCEPT !.completed = TRUE,
                                                             !.status = "completed"],
                                        !.calls = @ + 1,
                                        !.satisfied = TRUE])
                  ELSE [loop EXCEPT !.state = st, !.calls = @ + 1]
    /\ UNCHANGED <<api, rej, hvars, avars, cvars, qvars, rvars>>

\* the end of the while loop: max iterations reached
LoopExhausted ==
    /\ loop.pc = "running"
    /\ loop.state.current_iteration >= loop.state.max_iterations
    /\ loop' = _log_completion(
                   [loop EXCEPT !.state.status = "max_iterations_reached"])
    /\ UNCHANGED <<api, rej, hvars, avars, cvars, qvars, rvars>>

LoopNext ==
    \/ \E p \in Promises, m \in 0..MaxIterations, f \in {NONE, "TASK_a.md"}, logs \in BOOLEAN :
           LoopStart(p, m, f, logs)
    \/ \E output \in Outputs, in_done \in BOOLEAN, in_needs_action \in BOOLEAN :
           LoopIterate(output, in_done, in_needs_action)
    \/ LoopExhausted

Init == HealthInit /\ VaultInit /\ ClaimInit /\ QueueInit /\ ToolsInit /\ ApiInit /\ LoopInit

\* the orchestrator may be deployed with AGENT_ROLE=cloud
InitRace ==
    /\ HealthInit
    /\ ClaimInit
    /\ QueueInit
    /\ ToolsInit
    /\ ApiInit
    /\ LoopInit
    /\ \E r \in {"local", "cloud"} :
           /\ agent_role = [p \in Procs |-> IF p = "orchestrator" THEN r ELSE "local"]
           /\ vault = [d \in Dirs |-> EmptyDict]
           /\ registry = EmptyDict
           /\ clock = 0
           /\ nextId = 1
           /\ pa = [p \in Procs |-> [locals |-> IdleLocals, summary |-> EmptySummary,
                                     runs |-> 0, placed_seen |-> 0]]
           /\ hist = [invoked |-> [i \in Ids |-> 0], ok |-> {}, failed |-> {},
                      okSigs |-> {}, onRecorded |-> {}, saved |-> {}, placed |-> 0]

SpecHealth == Init /\ [][HealthNext]_vars

SpecApproved == Init /\ [][ApprovedNext]_vars

SpecRace == InitRace /\ [][RaceNext]_vars

SpecClaim == Init /\ [][ClaimNext]_vars

SpecExec == Init /\ [][ExecNext]_vars

SpecPending == Init /\ [][PendingNext]_vars

SpecQueue == Init /\ [][QueueNext]_vars

SpecLife == Init /\ [][LifeNext]_vars

SpecReviewLive == Init /\ [][ReviewLiveNext]_vars /\ ReviewFairness

SpecQueueLive == Init /\ [][QueueLiveNext]_vars /\ QueueFairness

SpecRetry == Init /\ [][RetryNext]_vars

SpecDash == Init /\ [][DashNext]_vars

SpecClaimFault == Init /\ [][ClaimFaultNext]_vars

SpecClaimLive == Init /\ [][ClaimLiveNext]_vars /\ ClaimFairness

SpecApi == Init /\ [][ApiNext]_vars

VaultAgents == {"cloud_draft_worker", "cloud_odoo", "local_executive"}

\* Every process that moves files of the vault, on one vault: the API, the
\* watchers, the claiming agents, and the orchestrator's process_approved and
\* process_rejected
VaultNext ==
    \/ RequestEmailApproval
    \/ \E id \in DOMAIN vault[PENDING_APPROVAL], d \in {APPROVED, REJECTED} :
           MoveApproval(id, d, FALSE)
    \/ vault[NEEDS_ACTION] # EmptyDict /\ CleanupNeedsAction("*", FALSE)
    \/ \E pl \in ClaimPlacements : CreateItem(pl[1], pl[2], pl[3])
    \/ \E n \in RaceNames, c \in Contents : PlaceApproved(n, c)
    \/ ClockTick
    \/ PR_Scan("orchestrator")
    \/ PR_Move("orchestrator")
    \/ \E a \in VaultAgents : Scan(a)
    \/ \E a \in VaultAgents : ClaimStep(a)
    \/ \E a \in VaultAgents : ProcessWith(a, "returned")
    \/ vault[APPROVED] # EmptyDict /\ pa["orchestrator"].runs = 0 /\ PA_Begin("orchestrator")
    \/ PA_Run("orchestrator")

SpecVault == Init /\ [][VaultNext]_vars

SpecLoop == Init /\ [][LoopNext]_vars

SpecLock == Init /\ [][LockNext]_vars

----------------------------------------------------------------------------
(* Properties of the executor *)

ExecInputs ==
    [action : {"ok", "raise"}, fallback_action : {"none", "ok", "raise"},
     queue_on_failure : BOOLEAN, action_data : Payloads]

\* the result of a call made in the current state for service s with inputs in
Result(s, in) ==
    execute_with_fallback(health, queue, s, in.action, in.fallback_action,
                          in.queue_on_failure, in.action_data, now)

Enqueued(s, in) ==
    LET r == Result(s, in)
    IN /\ DOMAIN r.queue = DOMAIN queue \cup {Cardinality(DOMAIN queue) + 1}
       /\ Cardinality(DOMAIN r.queue) = Cardinality(DOMAIN queue) + 1
       /\ \A i \in DOMAIN queue : r.queue[i] = queue[i]
       /\ LET item == r.queue[Cardinality(DOMAIN queue) + 1]
          IN item.service = s /\ item.status = "pending" /\ item.dir = QUEUE_DIR

C11_State ==
    \A s \in Services :
        (exec.third[s] >= 0 /\ now <= exec.third[s] + recovery_window) =>
            failCalls[s] = failure_threshold

C11_Step ==
    \A s \in Services :
        (/\ exec'.op = "execute" /\ now' = now /\ exec'.call.service = s
         /\ exec.third[s] >= 0 /\ now <= exec.third[s] + recovery_window) =>
            exec'.call.primary = 0

\* C11: while no more than the recovery window has passed since the third
\* failure in a row of a service's primary action, the primary action has
\* been invoked 3 times in that run of failures and no more, and every call
\* of execute_with_fallback made in that window skips the primary action.
C11_CircuitStopsAttempts == [] C11_State /\ [][C11_Step]_vars

C11_Witness ==
    \E s \in Services :
        /\ exec.op = "execute" /\ exec.call.service = s
        /\ ~exec.call.available /\ exec.call.primary = 0
        /\ exec.third[s] >= 0 /\ now > exec.third[s] /\ now <= exec.third[s] + recovery_window

\* C37: a call made for an unavailable service after its recovery window has
\* passed invokes the primary action; if that probe fails the service is
\* unavailable and is_available is false for a whole recovery window from
\* the probe; if it succeeds the status is healthy with no consecutive
\* failures.
C37_HalfOpenProbe ==
    \A s \in Services : \A in \in ExecInputs :
        (get_status(health, s) = UNAVAILABLE /\ is_available(health, s, now)) =>
            LET r == Result(s, in)
            IN /\ r.primary = 1
               /\ in.action = "raise" =>
                     /\ get_status(r.health, s) = UNAVAILABLE
                     /\ \A t \in now..(now + recovery_window) : ~is_available(r.health, s, t)
                     /\ is_available(r.health, s, now + recovery_window + 1)
               /\ in.action = "ok" =>
                     /\ get_status(r.health, s) = HEALTHY
                     /\ r.health[s].consecutive_failures = 0

C37_Witness ==
    \E s \in Services :
        /\ exec.op = "execute" /\ exec.call.service = s
        /\ exec.call.available /\ exec.call.primary = 1
        /\ get_status(health, s) = UNAVAILABLE
        /\ health[s].consecutive_failures = failure_threshold + 1
        /\ health[s].last_check = now

\* C38: whatever the primary action and the fallback do and whatever the
\* availability, the call returns: with the primary's result when the primary
\* was called and succeeded, else with the fallback's result when a fallback
\* was given and succeeded, else with nothing; no error reaches the caller.
C38_NeverSurfaces ==
    \A s \in Services : \A in \in ExecInputs :
        LET r == Result(s, in)
        IN r.ret = IF is_available(health, s, now) /\ in.action = "ok" THEN "result"
                   ELSE IF in.fallback_action = "ok" THEN "fallback_result"
                   ELSE "None"

C38_Witness ==
    /\ exec.op = "execute" /\ exec.call.available
    /\ exec.call.primary = 1 /\ exec.call.fallback = 1 /\ exec.call.ret = "None"

\* C12: a call made while is_available(service) is false never invokes the
\* primary action and leaves the health record as it is; it returns the
\* fallback's result when a fallback is given and succeeds, and otherwise
\* returns nothing and, unless the caller turned queueing off, has put the
\* action into the offline queue, whatever the payload.
C12_UnavailablePath ==
    \A s \in Services : \A in \in ExecInputs :
        ~is_available(health, s, now) =>
            LET r == Result(s, in)
            IN /\ r.primary = 0 /\ r.rs = 0 /\ r.rf = 0
               /\ r.health = health
               /\ IF in.fallback_action = "ok"
                  THEN r.ret = "fallback_result" /\ r.queue = queue
                  ELSE r.ret = "None" /\ (in.queue_on_failure => Enqueued(s, in))

\* C13: a call made while is_available(service) is true invokes the primary
\* action once; on success it calls record_success and returns the result
\* without queueing; on failure it calls record_failure once and returns
\* the fallback's result when a fallback is given and succeeds, and
\* otherwise, unless the caller turned queueing off, has put the action
\* into the offline queue, whatever the payload.
C13_AvailablePath ==
    \A s \in Services : \A in \in ExecInputs :
        is_available(health, s, now) =>
            LET r == Result(s, in)
            IN /\ r.primary = 1
               /\ IF in.action = "ok"
                  THEN /\ r.rs = 1 /\ r.rf = 0
                       /\ r.health = record_success(health, s, now)
                       /\ r.ret = "result" /\ r.queue = queue
                  ELSE /\ r.rs = 0 /\ r.rf = 1
                       /\ r.health = record_failure(health, s, "error", now)
                       /\ IF in.fallback_action = "ok"
                          THEN r.ret = "fallback_result" /\ r.queue = queue
                          ELSE r.ret = "None" /\ (in.queue_on_failure => Enqueued(s, in))

----------------------------------------------------------------------------
(* Properties of the offline queue *)

\* the list p holds the pending items of q (of the service, when one is
\* given), each once, ordered by priority and then by queued_at
SortedPending(q, p, service) ==
    /\ {p[k] : k \in 1..Len(p)} =
          {q[i] : i \in {j \in DOMAIN q : /\ q[j].dir = QUEUE_DIR
                                           /\ q[j].status = "pending"
                                           /\ service \in {NONE, q[j].service}}}
    /\ \A k, l \in 1..Len(p) : k # l => p[k].id # p[l].id
    /\ \A k \in 1..Len(p) - 1 :
          \/ p[k].priority < p[k + 1].priority
          \/ p[k].priority = p[k + 1].priority /\ p[k].queued_at <= p[k + 1].queued_at

\* C16: for every order in which the directory lists the files, get_pending
\* returns exactly the pending items of the queue directory, filtered by the
\* service when one is given, sorted by priority and then by queued_at; the
\* list a call returned is such a list (items queued with the priorities
\* 7, 1, 5 come back as 1, 5, 7).
C16_PendingSorted ==
    /\ \A service \in Services \cup {NONE} : \A listed \in Perms(InQueueDir(queue)) :
          SortedPending(queue, get_pending(queue, listed, service), service)
    /\ exec.op = "get_pending" =>
          SortedPending(queue, [k \in 1..Len(exec.handed) |-> queue[exec.handed[k]]],
                        exec.call.service)

C16_Witness ==
    /\ exec.op = "get_pending" /\ exec.call.service = "gmail"
    /\ DOMAIN queue = 1..3
    /\ \A i \in 1..3 : queue[i].service = "gmail" /\ queue[i].status = "pending"
    /\ queue[1].priority = 7 /\ queue[2].priority = 1 /\ queue[3].priority = 5
    /\ exec.handed = <<2, 3, 1>>

SweepInputs ==
    {in \in [service : Services, listed : Perms(InQueueDir(queue))] :
        exec.call.service \in {NONE, in.service}}

\* the result of a sweep made in the current state
Swept(in, outcomes) ==
    process_offline_queue(health, queue, in.service, in.listed, outcomes, now)

\* C17: a sweep moves an item to failed only when the attempts written to
\* its file are at least 5, and only when the item was handed to the
\* processor in that sweep and the processing failed.
C17_FailedOnlyAfterFive ==
    \A in \in SweepInputs : \A outcomes \in Outcomes(queue, in.listed, in.service) :
        LET r == Swept(in, outcomes)
        IN \A i \in DOMAIN queue :
              (r.queue[i].status = "failed" /\ queue[i].status # "failed") =>
                  /\ r.queue[i].attempts >= 5
                  /\ r.queue[i].dir = FAILED_DIR
                  /\ \E k \in 1..Len(r.handed) :
                        r.handed[k] = i /\ outcomes[k] # "true"

C17_Witness ==
    \E i \in DOMAIN queue :
        /\ queue[i].status = "failed" /\ queue[i].dir = FAILED_DIR
        /\ queue[i].attempts >= 5
        /\ exec.op = "sweep" /\ exec.call.service = queue[i].service

\* C18: a sweep started while is_available(service) is false hands no item
\* to the processor and changes neither the queue nor the health record.
C18_SweepNeedsAvailable ==
    \A in \in SweepInputs : \A outcomes \in Outcomes(queue, in.listed, in.service) :
        LET r == Swept(in, outcomes)
        IN ~is_available(health, in.service, now) =>
              /\ r.handed = <<>> /\ r.rs = 0 /\ r.rf = 0
              /\ r.queue = queue
              /\ r.health = health

C18_Witness ==
    /\ exec.op = "sweep" /\ ~exec.call.available
    /\ ~is_available(health, exec.call.service, now)
    /\ \E i \in InQueueDir(queue) :
          queue[i].service = exec.call.service /\ queue[i].status = "pending"

\* the sweeps of "gmail" that can be made in the current state
LifeSweeps ==
    UNION {{[listed |-> listed, outcomes |-> outcomes] :
               outcomes \in Outcomes(queue, listed, "gmail")} :
           listed \in Perms(InQueueDir(queue))}

InSeq(x, seq) == \E k \in 1..Len(seq) : seq[k] = x

\* what a sweep made in the current state does to the items
C34_State ==
    \A in \in LifeSweeps :
        LET r == process_offline_queue(health, queue, "gmail", in.listed, in.outcomes, now)
            pending == get_pending(queue, in.listed, "gmail")
        IN /\ \A k \in 1..Len(pending) : queue[pending[k].id].status = "pending"
           /\ \A k \in 1..Len(r.handed) :
                 /\ queue[r.handed[k]].status = "pending"
                 /\ \A j \in 1..Len(r.handed) : r.handed[j] = r.handed[k] => j = k
           /\ \A i \in DOMAIN queue :
                 r.queue[i].attempts =
                    queue[i].attempts + (IF InSeq(i, r.handed) THEN 1 ELSE 0)

\* what any step does to an item
C34_Step ==
    \A i \in DOMAIN queue :
        /\ i \in DOMAIN queue'
        /\ queue'[i].attempts >= queue[i].attempts
        /\ queue'[i].status # queue[i].status =>
              queue[i].status = "pending" /\ queue'[i].status \in {"completed", "failed"}
        /\ queue[i].status # "pending" => queue'[i] = queue[i]

\* C34: over any sequence of enqueue, increment_attempt, mark_completed,
\* mark_failed and sweeps, the status of an item only changes from pending
\* to completed or from pending to failed, its attempts never decrease and
\* grow by exactly 1 in a sweep that reaches it, and a completed or failed
\* item is not returned by get_pending, not handed to a processor and not
\* changed by any call.
C34_ItemLifecycle == [] C34_State /\ [][C34_Step]_vars

C34_Witness ==
    /\ exec.op = "mark_failed"
    /\ queue[exec.handed[1]].status = "completed"
    /\ queue[exec.handed[1]].attempts > MaxDirect
    /\ \E i \in DOMAIN queue : queue[i].status = "failed"

\* C35: an item is handed to the processor at most 5 times over all sweeps
\* (under sweeps alone the attempts of an item count its hand-overs), and an
\* item whose fifth attempt has failed is no longer pending.
C35_AttemptBound ==
    \A i \in DOMAIN queue :
        /\ queue[i].attempts <= 5
        /\ queue[i].status = "pending" => queue[i].attempts < 5

\* stands for the item of an id that is not in the queue
NoItem == [service |-> NONE, status |-> "none"]

\* C36: under repeated sweeps of a service, with time passing, every pending
\* item of the service eventually becomes completed or failed, whatever the
\* processor does with the items ranked before it.
C36_QueueProgress ==
    \A i \in 1..MaxBacklog :
        (i \in DOMAIN queue /\ Get(queue, i, NoItem).service = "gmail"
                            /\ Get(queue, i, NoItem).status = "pending")
            ~> (Get(queue, i, NoItem).status \in {"completed", "failed"})

C36_Witness ==
    /\ DOMAIN queue = 1..2 /\ "gmail" \in DOMAIN health
    /\ exec.op = "sweep" /\ exec.handed = <<1>>
    /\ queue[1].service = "gmail" /\ queue[2].service = "gmail"
    /\ queue[1].status = "failed" /\ queue[1].attempts = 6
    /\ queue[2].status = "pending" /\ queue[2].attempts = 0
    /\ health["gmail"].status = UNAVAILABLE
    /\ health["gmail"].consecutive_failures = 6

\* C19: in a sweep, once the processing of an item has failed (the processor
\* raised or returned false), no later pending item is handed to the
\* processor: every item handed before the last one was processed with success.
C19_FailFast ==
    \A in \in SweepInputs : \A outcomes \in Outcomes(queue, in.listed, in.service) :
        LET r == Swept(in, outcomes)
        IN \A k \in 1..Len(r.handed) - 1 : outcomes[k] = "true"

----------------------------------------------------------------------------
(* Properties of with_retry *)

\* min(base_delay * exponential_base^k, max_delay), as a number
Backoff(cfg, k) ==
    IF cfg.log2_base * k >= 4 THEN cfg.max_delay
    ELSE IF cfg.base_delay * Pow2(cfg.log2_base * k) < cfg.max_delay
         THEN cfg.base_delay * Pow2(cfg.log2_base * k) ELSE cfg.max_delay

AlwaysRetryable ==
    /\ retry.op = "called"
    /\ \A k \in 1..retry.cfg.max_attempts : retry.outcomes[k] = "retry"

\* C14: for every max_attempts n >= 1, a call whose function raises a
\* retryable error at every attempt invokes the function exactly n times,
\* sleeps exactly n-1 times, the k-th sleep (k = 0..n-2) being
\* min(base_delay * exponential_base^k, max_delay), and re-raises the last
\* error of the function.
C14_BackoffBound ==
    AlwaysRetryable =>
        /\ retry.calls = retry.cfg.max_attempts
        /\ Len(retry.sleeps) = retry.cfg.max_attempts - 1
        /\ \A k \in 0..retry.cfg.max_attempts - 2 :
              retry.sleeps[k + 1] = Backoff(retry.cfg, k)
        /\ retry.result = "retryable_error"

\* C15: the function is never invoked after an attempt that returned or that
\* raised an error outside retryable_exceptions; such an error is propagated
\* with no sleep after it, on whatever attempt it is raised, and the value
\* of the first attempt that succeeds is returned.
C15_NonRetryablePropagates ==
    retry.op = "called" =>
        /\ retry.calls \in 1..retry.cfg.max_attempts
        /\ \A k \in 1..retry.calls - 1 : retry.outcomes[k] = "retry"
        /\ Len(retry.sleeps) <= retry.calls - 1
        /\ retry.outcomes[retry.calls] = "other" =>
              retry.result = "other_error" /\ Len(retry.sleeps) = retry.calls - 1
        /\ retry.outcomes[retry.calls] = "ok" =>
              retry.result = "value" /\ Len(retry.sleeps) = retry.calls - 1

C15_Witness ==
    /\ retry.op = "called" /\ retry.cfg.max_attempts = MaxAttempts
    /\ retry.outcomes[1] = "retry" /\ retry.outcomes[2] = "other"
    /\ retry.outcomes[3] = "ok"
    /\ retry.calls = 2 /\ Len(retry.sleeps) = 1 /\ retry.result = "other_error"

----------------------------------------------------------------------------
(* Properties of the dashboard gate *)

\* the lock file exists, parses as a record whose owner is "local" up to the
\* case of the letters, and the caller does not assert the local identity
GateClosed(lock, env) ==
    /\ lock \in {"local", "LOCAL", "Local"}
    /\ env \in {"unset", "0"}

C20_Gate ==
    \A env \in Envs :
        LET d == update_dashboard(dash, env, now)
        IN IF GateClosed(dash.lock, env)
           THEN d.content = dash.content /\ d.writes = dash.writes /\ d.lock = dash.lock
           ELSE /\ d.writes = dash.writes + 1
                /\ d.content = [stamp |-> now, merged |-> FALSE]
                /\ d.lock = dash.lock

C20_Step ==
    /\ dash'.op = "skipped" =>
          /\ GateClosed(dash.lock, dash'.env)
          /\ dash'.content = dash.content /\ dash'.writes = dash.writes
    /\ (dash' # dash /\ dash'.op = "written") =>
          /\ ~GateClosed(dash.lock, dash'.env)
          /\ dash'.writes = dash.writes + 1 /\ dash'.content.stamp = now
    /\ (dash' # dash /\ dash'.op = "single_writer") =>
          /\ dash'.lock = "local"
          /\ dash'.writes = dash.writes + 1 /\ dash'.content.stamp = now

\* C20: update_dashboard leaves Dashboard.md as it is if and only if the lock
\* file exists, parses as a record, its owner equals "local" up to case and
\* LOCAL_EXEC_AGENT is not "1"; in every other case (no lock file, an
\* unreadable or malformed lock, another owner, LOCAL_EXEC_AGENT = "1") it
\* rewrites Dashboard.md.
C20_SingleWriterGate == [] C20_Gate /\ [][C20_Step]_vars

\* C21: once the local executive has written the lock file, every write of
\* Dashboard.md is made by the local executive, also when another process
\* calls update_dashboard while the lock file is being rewritten.
C21_SingleWriter ==
    [][(dash.owned /\ dash'.writes = dash.writes + 1) => dash'.op = "single_writer"]_vars

C20_Witness ==
    /\ dash.op = "skipped" /\ dash.lock = "LOCAL" /\ dash.env = "unset"
    /\ dash.writes = 2 /\ dash.content.stamp >= 0 /\ dash.content.stamp < now

----------------------------------------------------------------------------
(* Properties of the claim-by-move agents *)

InDir(v, dir, id) == \E n \in DOMAIN v[dir] : v[dir][n].id = id

\* a claim call made for item W: the agent had listed W, and the call
\* returned None or moved W itself
CallsOn(W) == {e \in claims.log : e.item = W /\ e.got \in {0, W}}

C1_State ==
    /\ \A e \in claims.log :
          e.got # 0 => Cardinality({w \in claims.log : w.got = e.got}) = 1
    /\ \A e1 \in claims.log : \A e2 \in CallsOn(e1.item) :
          (e1 \in CallsOn(e1.item) /\ e1.agent # e2.agent) =>
              \/ e1.got = e1.item /\ e2.got = 0 /\ e2.result = NONE
              \/ e2.got = e1.item /\ e1.got = 0 /\ e1.result = NONE

C1_Step ==
    \A e \in claims.log' \ claims.log :
        /\ e.result # NONE <=> Exists(vault, e.src, e.name)
        /\ e.result # NONE =>
              /\ e.result = InProgress(e.agent)
              /\ {d \in Dirs : InDir(vault', d, e.got)} = {e.result}
        /\ e.result = NONE => vault' = vault

\* C1: of two agents that call their claim function for the same work item,
\* in any interleaving, exactly one gets a path and the other gets None; no
\* item is ever claimed by two calls; a call gets a path exactly when the
\* file is at the source path, and the item is then in the caller's
\* In_Progress directory and in no other directory.
C1_ExactlyOneClaim == [] C1_State /\ [][C1_Step]_vars

C1_Witness ==
    \E e1 \in claims.log : \E e2 \in claims.log :
        /\ e1.agent = "cloud_odoo" /\ e2.agent = "local_executive"
        /\ e1.item = e2.item
        /\ e1.got = 0 /\ e2.got = e2.item
        /\ InDir(vault, IN_PROGRESS_LOCAL, e2.item)

\* the identities of the files of a vault
ItemIds(v) == UNION {{v[d][n].id : n \in DOMAIN v[d]} : d \in Dirs}

HasClaimedMarker(n) ==
    \/ StartsWith(n, <<"CLOUD", "CLAIMED">>)
    \/ Len(n) > 3 /\ SubSeq(n, 2, 3) = <<"CLOUD", "CLAIMED">>

\* the review files in Pending_Approval that were written for the draft
ReviewsOf(v, cl, draft) ==
    {r \in DOMAIN cl.origin :
        /\ cl.origin[r] = draft
        /\ \E n \in DOMAIN v[PENDING_APPROVAL] :
              v[PENDING_APPROVAL][n].id = r /\ StartsWith(n, <<"LOCAL", "REVIEW">>)}

HandedOver(v, cl) ==
    \A draft \in cl.batch :
        /\ \E e \in cl.log :
              e.agent = "local_executive" /\ e.got = draft /\ e.src = NEEDS_ACTION_CLOUD
        /\ \A d \in Dirs : \A n \in DOMAIN v[d] :
              v[d][n].id = draft => d = DONE /\ HasClaimedMarker(n)
        /\ InDir(v, DONE, draft)
        /\ Cardinality(ReviewsOf(v, cl, draft)) = 1

\* C33: when a call of handoff_cloud_drafts returns, every draft it claimed
\* from Needs_Action/cloud is in Done under a CLOUD_CLAIMED_ name and in no
\* other directory, In_Progress/local included, and has exactly one
\* LOCAL_REVIEW_ file of its own in Pending_Approval.
C33_HandoffConservation ==
    [][(claims.handoff = "running" /\ claims'.handoff = "returned")
          => HandedOver(vault', claims')]_vars

C33_Witness ==
    /\ claims.handoff = "returned" /\ Cardinality(claims.batch) = 2
    /\ agents["local_executive"].pc = "idle"
    /\ HandedOver(vault, claims)
    /\ \E n1 \in DOMAIN vault[PENDING_APPROVAL] : \E n2 \in DOMAIN vault[PENDING_APPROVAL] :
          n1 # n2 /\ n1[Len(n1)] = n2[Len(n2)]

\* C29: an error raised in a cycle of an agent's polling loop does not end
\* the loop.
C29_LoopSurvives == \A a \in Agents : agents[a].pc # "crashed"

\* C25: a batch of an agent ends only when every item of its listing was
\* handled: a failure with one item does not drop the others.
C25_PerItemIsolation ==
    [][\A a \in Agents :
          (agents[a].pc = "process" /\ agents'[a].pc # "process" /\ agents'[a].pc # "loop")
              => agents[a].candidates \ {agents[a].claimed} = {}]_vars

\* C23: no operation destroys a work item: every file that is in the vault
\* before a step is in the vault after it.
C23_NothingDestroyed == [][ItemIds(vault) \subseteq ItemIds(vault')]_vars

\* C24: every item claimed into an In_Progress directory is eventually in
\* Done.
C24_InProgressTransient ==
    \A id \in 1..(3 * MaxFiles) :
        (\E a \in Agents : InDir(vault, InProgress(a), id)) ~> InDir(vault, DONE, id)

----------------------------------------------------------------------------
(* Properties of the API's write path and of process_rejected *)

\* the directories that hold the file of an identity
Where(v, id) == {d \in Dirs : InDir(v, d, id)}

\* C28: an API action moves a file only from Pending_Approval to Approved
\* (approve) or to Rejected (reject); approve and reject of an id that is not
\* in Pending_Approval return an error and change no file; no API action
\* moves or removes a file in any other way.
C28_ApiMovesOnlyPending ==
    [][api' # api =>
        /\ \A id \in ItemIds(vault) :
              \/ Where(vault', id) = Where(vault, id)
              \/ /\ api'.op = "approve" /\ api'.status = "success"
                 /\ Where(vault, id) = {PENDING_APPROVAL} /\ Where(vault', id) = {APPROVED}
              \/ /\ api'.op = "reject" /\ api'.status = "success"
                 /\ Where(vault, id) = {PENDING_APPROVAL} /\ Where(vault', id) = {REJECTED}
        /\ (api'.op \in {"approve", "reject"} /\ ~Exists(vault, PENDING_APPROVAL, api'.id))
              => api'.status = "error" /\ vault' = vault]_vars

\* C30: a call of process_rejected ends by returning; every file it listed
\* in Rejected is then in Done and not in Rejected, moved_count is the
\* number of the files listed, and no channel action was invoked.
C30_RejectedArchived ==
    [][\A p \in Procs :
          (rej[p].pc = "loop" /\ rej'[p].pc = "idle") =>
              /\ rej'[p].result = "returned"
              /\ rej'[p].moved_count = Cardinality(rej[p].listed)
              /\ \A id \in rej[p].listed : Where(vault', id) = {DONE}
              /\ hist' = hist]_vars

\* C22: a file that is in Done is in no other directory after any step of
\* any process.
C22_DoneIsTerminal ==
    [][\A id \in ItemIds(vault) :
          InDir(vault, DONE, id) => Where(vault', id) \subseteq {DONE}]_vars

C22_Witness ==
    /\ \E id \in ItemIds(vault) : InDir(vault, DONE, id)
    /\ rej["orchestrator"].pc = "loop"
    /\ \E a \in Agents : agents[a].pc = "process"

----------------------------------------------------------------------------
(* Properties of the approval pipeline *)

Ended(p) == pa[p].summary.returned \/ pa[p].summary.raised

\* the step in which a run of process_approved returns or raises
EndStep(p) == Ended(p)' /\ (~Ended(p) \/ pa[p].runs' # pa[p].runs)

HasDuplicateMarker(n) ==
    \/ n[1] = "DUPLICATE"
    \/ Len(n) >= 2 /\ n[2] = "DUPLICATE"

C2Good(p) ==
    LET sm == pa[p].summary IN
    sm.expect_dups # {} =>
        /\ sm.returned
        /\ \A e \in sm.expect_dups :
              /\ sm.calls[e.id] = 0
              /\ \E n \in DOMAIN vault[DONE] :
                     vault[DONE][n].id = e.id /\ HasDuplicateMarker(n)
              /\ Cardinality({i \in 1..Len(sm.duplicates) :
                     /\ sm.duplicates[i].file = e.name
                     /\ sm.duplicates[i].status = "skipped_duplicate"}) = 1

\* C2: when a run of process_approved finds in Approved a file, of any
\* channel, whose content an earlier run processed successfully, it invokes
\* no processor for it, archives it in Done under a DUPLICATE_ name and
\* returns a summary with exactly one skipped_duplicate entry for it.
C2_DuplicateReinsert == [][\A p \in Procs : EndStep(p) => C2Good(p)']_vars

\* C3: no channel action is ever invoked on an Approved file whose content
\* signature is in the registry at the moment of the invocation.
C3_PrecheckCoversAll == hist.onRecorded = {}

C4Good(p) ==
    LET sm == pa[p].summary IN
    /\ \A id \in sm.ok_ids :
          /\ sm.calls[id] = 1
          /\ InDir(vault, DONE, id)
          /\ ~InDir(vault, APPROVED, id)
    /\ sm.ok_sigs \subseteq DOMAIN registry

\* C4: at the end of a run of process_approved, every item whose action
\* succeeded in the run was invoked exactly once, is in Done and not in
\* Approved, and has its signature in the persisted registry.
C4_EndToEnd == [][\A p \in Procs : EndStep(p) => C4Good(p)']_vars

\* C5: every signature in the registry is the signature of a content whose
\* channel action succeeded.
C5_RecordedOnlyOnSuccess == DOMAIN registry \subseteq hist.okSigs

\* C6: a signature that is in the persisted registry is in it at every later
\* time, also when two processes run process_approved with overlapping
\* load and save steps.
C6_SignaturePermanence == [][DOMAIN registry \subseteq DOMAIN registry']_vars

NoCalls(p) == \A id \in Ids : pa[p].summary.calls[id] = 0

Second(p) == pa[p].runs >= 2 /\ pa[p].summary.quiet

NoCallsOnDone(p) == \A id \in pa[p].summary.prev_ok : pa[p].summary.calls[id] = 0

C26_MalformedArchived ==
    [][\A p \in Procs :
          (/\ pa[p].locals.pc = "run" /\ pa[p].locals.odoo_files
           /\ agent_role[p] # "cloud"
           /\ pa'[p].locals.pc # "run" /\ pa'[p].summary.returned)
          => \A n \in DOMAIN vault[APPROVED] :
                (/\ GlobOdooInvoice(n) \/ GlobOdooPostInvoice(n) \/ GlobOdooPayment(n)
                 /\ ~Valid(vault[APPROVED][n].content))
                => ~InDir(vault', APPROVED, vault[APPROVED][n].id)]_vars

\* the contents of the files of the vault that carry the id
ContentsOf(v, id) ==
    UNION {{v[d][n].content : n \in {m \in DOMAIN v[d] : v[d][m].id = id}} : d \in Dirs}

C31Good(p) ==
    LET sm == pa[p].summary
        called == {id \in Ids : sm.calls[id] > 0}
    IN (sm.returned /\ called \subseteq sm.ok_ids) =>
           \A i \in called : \A j \in called \ {i} :
               ContentsOf(vault, i) \cap ContentsOf(vault, j) = {}

\* C31: as long as no invocation has failed, a run of process_approved
\* invokes the channel processors on at most one Approved file of each
\* content: of two byte-identical files with different names that are in
\* Approved at the start of the run, at most one is acted on.
C31_AtMostOncePerContent == [][\A p \in Procs : EndStep(p) => C31Good(p)']_vars

\* C32: under repeated cycles of the local executive with every channel
\* action succeeding, every file placed in Approved, the LOCAL_REVIEW_ items
\* of the cloud-draft hand-off included, is eventually in Done.
C32_ApprovedLeaves ==
    \A id \in 1..(MaxFiles + 1) : InDir(vault, APPROVED, id) ~> InDir(vault, DONE, id)

\* process_odoo_approved called with AGENT_ROLE=cloud in the current state
CloudArgs ==
    [v |-> vault, h |-> hist, raised |-> FALSE,
     calls |-> [i \in Ids |-> 0], ok_ids |-> {}, ok_sigs |-> {},
     seen |-> registry, duplicates |-> <<>>, results |-> "none"]

CloudCall(imported, ok) ==
    process_odoo_approved(CloudArgs, "cloud", imported, ok, registry, clock)

\* what a call made with AGENT_ROLE=cloud leaves alone: no Odoo action is
\* invoked, no file is moved, the registry is as it was
CloudFrame(r) ==
    /\ r.h = hist /\ r.calls = CloudArgs.calls /\ r.ok_ids = {}
    /\ r.v = vault
    /\ r.seen = registry
    /\ r.duplicates = <<>> /\ ~r.raised

\* C39: with AGENT_ROLE=cloud, process_odoo_approved invokes no Odoo action,
\* returns a single skipped result, and leaves every ODOO_* file in Approved
\* and the signature registry unchanged.
C39_CloudRoleSkips ==
    \A imported \in BOOLEAN : \A ok \in [DOMAIN vault[APPROVED] -> BOOLEAN] :
        LET r == CloudCall(imported, ok)
        IN r.results = "skipped" /\ CloudFrame(r)

\* C39, amended: with AGENT_ROLE=cloud, process_odoo_approved invokes no Odoo
\* action, leaves every file and the registry unchanged, and returns a
\* single result: skipped, or error when the Odoo server module cannot be
\* imported.
C39_CloudRoleFrame ==
    \A imported \in BOOLEAN : \A ok \in [DOMAIN vault[APPROVED] -> BOOLEAN] :
        LET r == CloudCall(imported, ok)
        IN r.results = (IF imported THEN "skipped" ELSE "error") /\ CloudFrame(r)

C39_Witness ==
    /\ agent_role["orchestrator"] = "cloud"
    /\ pa["orchestrator"].summary.returned
    /\ pa["orchestrator"].summary.odoo = "skipped"
    /\ hist.invoked = [i \in Ids |-> 0]
    /\ registry = EmptyDict
    /\ \E n \in DOMAIN vault[APPROVED] :
          StartsWith(n, <<"ODOO", "INVOICE">>) /\ Valid(vault[APPROVED][n].content)

----------------------------------------------------------------------------
(* Properties of the task-executor loop *)

\* C40: execute_loop calls the executor at most max_iterations times, makes
\* no call after an iteration that satisfied is_complete, and returns with
\* current_iteration <= max_iterations, with status completed and completed
\* true when an iteration satisfied is_complete and with status
\* max_iterations_reached and completed false otherwise.
C40_LoopTerminates ==
    /\ loop.calls <= loop.state.max_iterations
    /\ loop.state.current_iteration <= loop.state.max_iterations
    /\ loop.satisfied => loop.pc = "done"
    /\ loop.pc = "done" =>
          /\ loop.result = "returned"
          /\ loop.state.completed = loop.satisfied
          /\ loop.state.status =
                 IF loop.satisfied THEN "completed" ELSE "max_iterations_reached"

----------------------------------------------------------------------------
(* Properties of the service health monitor *)

Count(h, s) == Get(Get(h, s, EmptyDict), "consecutive_failures", 0)

\* C8: starting from a healthy record, three consecutive record_failure
\* calls leave the status degraded, degraded, unavailable in that order, and
\* after a further record_failure, while no more than the recovery window
\* has passed since it, is_available is false.
C8_CircuitEscalation ==
    \A s \in Services :
        (trace[s] # <<>> /\ trace[s][1] = HEALTHY) =>
            /\ Len(trace[s]) >= 2 => trace[s][2] = DEGRADED
            /\ Len(trace[s]) >= 3 => trace[s][3] = DEGRADED
            /\ Len(trace[s]) >= 4 => trace[s][4] = UNAVAILABLE
            /\ (Len(trace[s]) >= 5 /\ now - health[s].last_check <= recovery_window)
                   => ~is_available(health, s, now)

C8_Witness ==
    \E s \in Services :
        /\ trace[s] = <<HEALTHY, DEGRADED, DEGRADED, UNAVAILABLE, UNAVAILABLE>>
        /\ now > health[s].last_check
        /\ ~is_available(health, s, now)

C9_State ==
    \A s \in Services :
        IF s \notin DOMAIN health
        THEN failCalls[s] = 0 /\ lastCall[s] = "none"
        ELSE /\ health[s].consecutive_failures = failCalls[s]
             /\ (health[s].status = HEALTHY) <=>
                    (failCalls[s] = 0 /\ lastCall[s] = "record_success")
             /\ (health[s].status = DEGRADED) <=> (failCalls[s] \in {1, 2})
             /\ (health[s].status = UNAVAILABLE) <=> (failCalls[s] >= 3)

C9_Step ==
    \A s \in Services :
        (Count(health, s) # 0 /\ Count(health', s) = 0)
            => health' = record_success(health, s, now)

\* C9: consecutive_failures equals the number of record_failure calls since
\* the last record_success (or since the start), it goes back to 0 only by a
\* record_success, and the status is healthy iff the count is 0 after a
\* success, degraded iff it is 1 or 2, unavailable iff it is at least 3.
C9_HealthRecordInvariant == [] C9_State /\ [][C9_Step]_vars

C9_Witness ==
    \E s \in Services :
        /\ s \in DOMAIN health
        /\ lastCall[s] = "record_success"
        /\ \E r \in Services : failCalls[r] >= 3 /\ health[r].status = UNAVAILABLE

\* C10: is_available is true for healthy, degraded and unknown (no record);
\* for unavailable it is true iff the time since last_check is strictly
\* greater than the recovery window.
C10_IsAvailable ==
    \A s \in Services :
        LET st == IF s \in DOMAIN health THEN health[s].status ELSE UNKNOWN
        IN is_available(health, s, now) <=>
               \/ st \in {HEALTHY, DEGRADED, UNKNOWN}
               \/ st = UNAVAILABLE /\ now - health[s].last_check > 5

C10_Witness ==
    \E s \in Services :
        /\ s \in DOMAIN health
        /\ health[s].status = UNAVAILABLE
        /\ now - health[s].last_check = 6
        /\ is_available(health, s, now)
        /\ \E r \in Services : r \notin DOMAIN health

====
